---- MODULE Spec2Model ----
(***************************************************************************)
(* Model of the forecasting side of the Rwanda trade analysis repository:  *)
(*   - TradePredictor (src/python_processing/predictor.py): feature-based  *)
(*     forecasts, the baseline estimator and the trade-balance forecast;   *)
(*   - EnhancedTimeSeriesAnalyzer                                          *)
(*     (src/python_processing/enhanced_time_series_analyzer.py): the       *)
(*     ARIMA / SARIMA / exponential-smoothing strategies, the weighted     *)
(*     ensemble, the statistical profile and its recommendations;          *)
(*   - ComprehensiveAnalysisRunner                                         *)
(*     (src/python_processing/comprehensive_analysis_runner.py): the       *)
(*     compiled recommendation list and the stages of a run;               *)
(*   - PipelineRunner (src/python_processing/run_pipeline.py): the run and *)
(*     its summary report.                                                 *)
(* The objects load the same JSON record lists at construction (the        *)
(* analyzer also loads the trade balance records); every public operation  *)
(* is one action that leaves its outcome in `ret`, and a run of the        *)
(* comprehensive analysis is one action per stage, with the run's state in *)
(* `ret` until it has returned or raised.                                  *)
(* What the statistical libraries return (fits, scores, forecasts) is a    *)
(* nondeterministic choice from small sets.  unique_array is the kind of    *)
(* array the installed pandas hands out for Series.unique(): a NumPy       *)
(* ndarray (object columns), or an extension array (string columns).       *)
(***************************************************************************)
EXTENDS Integers, Sequences, FiniteSets, TLC

VARIABLES exports_data, imports_data, trade_balance_data, unique_array, ret

vars == <<exports_data, imports_data, trade_balance_data, unique_array, ret>>

(***************************************************************************)
(* Bounds of the model.                                                    *)
(***************************************************************************)
\* unique quarters of the export records (Spec)
MaxQuarters == 7

\* unique quarters of the import records (Spec)
MaxImportQuarters == 6

\* unique quarters of the export records (SpecEnsemble)
MaxSeriesLen == 21

\* n_quarters of the predictor's operations
MaxHorizon == 8

\* forecast_periods of the analyzer's operations
MaxPeriods == 4

\* significand width of the modelled binary floats
MantissaBits == 9

\* records of a list with repeated and malformed tokens (SpecBuilder)
MaxRecords == 3

\* longest record list of the profile family (swinging exports go to MaxQuarters)
MaxProfileLen == 4

\* longest import record list of the profile family
MaxProfileImports == 2

(***************************************************************************)
(* Binary floating point, round-to-nearest-even, MantissaBits significant  *)
(* bits.  A float is m * 2^e with m = 0, or 2^(P-1) <= |m| < 2^P; NaN      *)
(* stands for every non-finite value.  Python's float arithmetic is the    *)
(* same arithmetic with 53 bits.                                           *)
(***************************************************************************)
RECURSIVE Pow2(_)
Pow2(k) == IF k <= 0 THEN 1 ELSE 2 * Pow2(k - 1)

Abs(x) == IF x < 0 THEN 0 - x ELSE x

Max(a, b) == IF a >= b THEN a ELSE b

Min(a, b) == IF a <= b THEN a ELSE b

RECURSIVE BitLen(_)
BitLen(x) == IF x = 0 THEN 0 ELSE 1 + BitLen(x \div 2)

NaN == [nan |-> TRUE, m |-> 0, e |-> 0]

Fl(m, e) == [nan |-> FALSE, m |-> m, e |-> e]

FZero == Fl(0, 0)

\* The float nearest to sign * mag * 2^e; sticky: bits were already cut off below mag.
RoundDyadic(sign, mag, e, sticky) ==
  IF mag = 0 THEN FZero
  ELSE LET s == BitLen(mag) - MantissaBits
       IN  IF s <= 0 THEN Fl(sign * mag * Pow2(0 - s), e + s)
           ELSE LET q    == mag \div Pow2(s)
                    rem  == mag % Pow2(s)
                    half == Pow2(s - 1)
                    up   == \/ rem > half
                            \/ rem = half /\ sticky
                            \/ rem = half /\ ~sticky /\ q % 2 = 1
                    r    == IF up THEN q + 1 ELSE q
                IN  IF r = Pow2(MantissaBits)
                      THEN Fl(sign * Pow2(MantissaBits - 1), e + s + 1)
                      ELSE Fl(sign * r, e + s)

Sign(x) == IF x < 0 THEN 0 - 1 ELSE 1

FromInt(x) == RoundDyadic(Sign(x), Abs(x), 0, FALSE)

FMul(a, b) ==
  IF a.nan \/ b.nan THEN NaN
  ELSE RoundDyadic(Sign(a.m) * Sign(b.m), Abs(a.m) * Abs(b.m), a.e + b.e, FALSE)

FAdd(a, b) ==
  IF a.nan \/ b.nan THEN NaN
  ELSE IF a.m = 0 THEN b
  ELSE IF b.m = 0 THEN a
  ELSE LET lo == Min(a.e, b.e)
           M  == a.m * Pow2(a.e - lo) + b.m * Pow2(b.e - lo)
       IN  RoundDyadic(Sign(M), Abs(M), lo, FALSE)

\* a / b: a quotient of MantissaBits + 2 bits or more, the remainder kept as sticky.
FDiv(a, b) ==
  IF a.nan \/ b.nan \/ b.m = 0 THEN NaN
  ELSE LET num == Abs(a.m) * Pow2(MantissaBits + 2)
           den == Abs(b.m)
       IN  RoundDyadic(Sign(a.m) * Sign(b.m), num \div den,
                       a.e - b.e - (MantissaBits + 2), num % den # 0)

\* The float literal n/d of the source text (0.3 is FLit(3, 10)).
FLit(n, d) == FDiv(FromInt(n), FromInt(d))

(***************************************************************************)
(* Exact rationals, for the values pandas computes from the records (the   *)
(* model keeps them as a numerator over a positive denominator).           *)
(***************************************************************************)
Rat(n, d) == [n |-> n, d |-> d]

RatEq(a, b) == a.n * b.d = b.n * a.d

RatLt(a, b) == a.n * b.d < b.n * a.d

RECURSIVE SumSeq(_)
SumSeq(s) == IF s = <<>> THEN 0 ELSE Head(s) + SumSeq(Tail(s))

\* Series.mean()
\* the first value in place of the mean
MeanOfFirst(vals) == Rat(vals[1], 1)

Mean(vals) == Rat(SumSeq(vals), Len(vals))

(***************************************************************************)
(* Quarter tokens "<year>Q<quarter>".                                      *)
(***************************************************************************)
Quarter(y, q) == [y |-> y, q |-> q]

BaseYear == 2024

BaseQuarterNo == 4

\* A token that is not <int>Q<int> is written with quarter 0; its year field only
\* places it in the string order: SortsFirst before every well-formed token
\* ("#N/A", say), SortsLast after them ("n/a", say).  It is never the empty string.
SortsFirst == 0

SortsLast == 9999

Malformed(rank) == Quarter(rank, 0)

Unparseable(t) == t.q = 0

FallbackYear == 2024

FallbackNextYear == 2025

\* _parse_quarter / _quarter_to_numeric: the order of the first days of the
\* quarters; datetime(2024, 1, 1) for a token that does not split into two
\* integers or whose quarter is not 1..4
QuarterDate(t) ==
  IF t.q \in 1..4 THEN t.y * 12 + (3 * (t.q - 1) + 1) ELSE FallbackYear * 12 + 1

\* sorted() of the tokens: as strings, year first and then the quarter digit.
TokenLeq(a, b) == a.y < b.y \/ (a.y = b.y /\ a.q <= b.q)

\* _get_next_quarter
GetNextQuarter(current_quarter, steps) ==
  IF Unparseable(current_quarter) THEN Quarter(FallbackNextYear, steps)
  ELSE LET total_quarters == current_quarter.y * 4 + current_quarter.q - 1 + steps
           new_year       == total_quarters \div 4
           new_quarter    == (total_quarters % 4) + 1
       IN  Quarter(new_year, new_quarter)

(***************************************************************************)
(* The record lists loaded at construction.  cols is the set of columns    *)
(* the DataFrame built from the records has.                               *)
(***************************************************************************)
Record(t, v) == [quarter |-> t, value |-> v]

Data(cols, recs) == [cols |-> cols, recs |-> recs]

StartYear == 2022

ScenarioA == <<100, 110, 105, 120>>

DupValue == 70

\* the i-th quarter of the input family (1-indexed), from <StartYear>Q1 on
QuarterAt(i) == Quarter(StartYear + (i - 1) \div 4, ((i - 1) % 4) + 1)

ValueAt(pattern, i) ==
  IF pattern = "scenarioA"
    THEN (IF i <= Len(ScenarioA) THEN ScenarioA[i] ELSE 100 + 5 * i)
    ELSE 10 * i

SeriesRecs(n, pattern) ==
  IF n = 0 THEN <<>> ELSE [i \in 1..n |-> Record(QuarterAt(i), ValueAt(pattern, i))]

\* n unique quarters; dup adds a second record of the latest quarter, first or last in the list
FamilyRecs(n, pattern, dup) ==
  IF n = 0 \/ dup = "none" THEN SeriesRecs(n, pattern)
  ELSE IF dup = "front" THEN <<Record(QuarterAt(n), DupValue)>> \o SeriesRecs(n, pattern)
  ELSE SeriesRecs(n, pattern) \o <<Record(QuarterAt(n), DupValue)>>

AllCols == {"quarter", "value"}

ColumnShapes == {AllCols, {"quarter"}, {"value"}}

Shapes == {<<"scenarioA", "none">>, <<"scenarioA", "front">>, <<"scenarioA", "back">>,
           <<"rising", "none">>}

EnsembleShapes == {<<"rising", "none">>, <<"scenarioA", "back">>}

ExportFamily(maxn) ==
  {Data(AllCols, FamilyRecs(n, sh[1], sh[2])) : n \in 0..maxn, sh \in Shapes}
    \cup {Data(c, SeriesRecs(n, "scenarioA")) : n \in 0..maxn, c \in ColumnShapes}

\* Record lists in any order, with repeated and malformed tokens: the value of a
\* record is fixed by its place in the list (50, then 70, then 10 * place).
BuilderTokens ==
  {Quarter(BaseYear, 1), Quarter(BaseYear, BaseQuarterNo),
   Malformed(SortsFirst), Malformed(SortsLast)}

ScenarioD == <<50, 70>>

PlaceValue(i) == IF i <= Len(ScenarioD) THEN ScenarioD[i] ELSE 10 * i

BuilderFamily(maxlen) ==
  {Data(AllCols, <<>>)}
    \cup UNION {{Data(AllCols, [i \in 1..n |-> Record(tokens[i], PlaceValue(i))]) :
                   tokens \in [1..n -> BuilderTokens]} : n \in 1..maxlen}

ImportFamily(maxn) == {Data(AllCols, SeriesRecs(n, "rising")) : n \in 0..maxn}

\* Record lists for the profiles: export histories that rise, fall, swing or stay
\* flat, and balance histories that start in deficit.
ProfileValue(pattern, i) ==
  IF pattern = "falling" THEN 100 - 10 * i
  ELSE IF pattern = "volatile" THEN (IF i % 2 = 1 THEN 10 ELSE 100)
  ELSE IF pattern = "flat" THEN 50
  ELSE IF pattern = "deficit" THEN 10 * i - 40
  ELSE 10 * i

ProfileRecs(n, pattern) ==
  IF n = 0 THEN <<>> ELSE [i \in 1..n |-> Record(QuarterAt(i), ProfileValue(pattern, i))]

\* an export history with a gap of nine quarters before its last observation
GappedRecs ==
  <<Record(Quarter(StartYear, 1), 10), Record(Quarter(StartYear, 2), 40),
    Record(Quarter(StartYear + 2, 4), 20)>>

\* an export history that starts at zero
ZeroStartRecs ==
  <<Record(Quarter(StartYear, 1), 0), Record(Quarter(StartYear, 2), 20),
    Record(Quarter(StartYear, 3), 30)>>

ProfileFamily(maxn, patterns) ==
  {Data(AllCols, ProfileRecs(n, pattern)) : n \in 0..maxn, pattern \in patterns}

(***************************************************************************)
(* TradePredictor.prepare_time_series_data                                 *)
(***************************************************************************)
\* sort_values('quarter_date'): rows of equal date keep their order
InsertByDate(s, r) ==
  LET k == Cardinality({i \in 1..Len(s) : QuarterDate(s[i].quarter) <= QuarterDate(r.quarter)})
  IN  SubSeq(s, 1, k) \o <<r>> \o SubSeq(s, k + 1, Len(s))

RECURSIVE SortByDate(_)
SortByDate(recs) ==
  IF recs = <<>> THEN <<>>
  ELSE InsertByDate(SortByDate(SubSeq(recs, 1, Len(recs) - 1)), recs[Len(recs)])

RECURSIVE KeepIdx(_, _, _)
KeepIdx(s, keep, i) ==
  IF i > Len(s) THEN <<>>
  ELSE (IF i \in keep THEN <<s[i]>> ELSE <<>>) \o KeepIdx(s, keep, i + 1)

\* every row kept
KeepDuplicates(s) == s

\* drop_duplicates(subset=['quarter'], keep='last')
DropDuplicatesKeepLast(s) ==
  KeepIdx(s, {i \in 1..Len(s) : \A j \in (i + 1)..Len(s) : s[j].quarter # s[i].quarter}, 1)

PrepareTimeSeriesData(data) ==
  IF data.recs = <<>> THEN <<>>
  ELSE IF "quarter" \notin data.cols \/ "value" \notin data.cols THEN <<>>
  ELSE DropDuplicatesKeepLast(SortByDate(data.recs))

(***************************************************************************)
(* TradePredictor.create_features.  A cell is a rational, or NaNCell where *)
(* pandas leaves the feature undefined.                                    *)
(***************************************************************************)
NaNCell == Rat(0, 0)

IsNaNCell(c) == c.d = 0

MaxLag == 4

Sq(x) == x * x

\* .shift(lag)
LagCell(df, i, lag) == IF i > lag THEN Rat(df[i - lag].value, 1) ELSE NaNCell

\* .rolling(window=w).mean()
RollingMean(df, i, w) ==
  IF i >= w THEN Rat(SumSeq([k \in 1..w |-> df[i - w + k].value]), w) ELSE NaNCell

\* .rolling(window=3).std(), kept as the sample variance
RollingVar3(df, i) ==
  IF i >= 3
    THEN Rat(3 * (Sq(df[i].value) + Sq(df[i - 1].value) + Sq(df[i - 2].value))
               - Sq(df[i].value + df[i - 1].value + df[i - 2].value), 6)
    ELSE NaNCell

FeatureRow(df, i) ==
  LET n == Len(df)
  IN  [quarter |-> df[i].quarter,
       value   |-> df[i].value,
       quarter_numeric |-> Rat(QuarterDate(df[i].quarter) - 1, 12),
       lags    |-> [lag \in 1..(Min(MaxLag + 1, n) - 1) |-> LagCell(df, i, lag)],
       rolling |-> IF n >= 3 THEN <<RollingMean(df, i, 2), RollingMean(df, i, 3)>> ELSE <<>>,
       rstd    |-> IF n >= 4 THEN <<RollingVar3(df, i)>> ELSE <<>>,
       trend   |-> i - 1]

HasNaN(row) ==
  \/ \E k \in DOMAIN row.lags : IsNaNCell(row.lags[k])
  \/ \E k \in DOMAIN row.rolling : IsNaNCell(row.rolling[k])
  \/ \E k \in DOMAIN row.rstd : IsNaNCell(row.rstd[k])

CreateFeatures(df) ==
  LET rows == [i \in 1..Len(df) |-> FeatureRow(df, i)]
  IN  KeepIdx(rows, {i \in 1..Len(df) : ~HasNaN(rows[i])}, 1)

(***************************************************************************)
(* Results.  A forecast point is (quarter, value, confidence); an          *)
(* operation returns its list, or lets an exception out.                   *)
(***************************************************************************)
Point(t, v, c) == [quarter |-> t, value |-> v, confidence |-> c]

Returned(points) == [status |-> "ok", points |-> points]

Raised(what) == [status |-> what, points |-> <<>>]

BaselineConfidence == 60

ZeroConfidence == 50

ArrayKinds == {"ndarray", "extension"}

\* bool(array).  An ndarray: the truth of the one element when there is one, an
\* error when there are several; an extension array: whether it has elements.
ArrayTruth(size) ==
  IF size = 0 THEN "false"
  ELSE IF size = 1 \/ unique_array = "extension" THEN "true"
  ELSE "ValueError"

\* the set of quarters of the records: df['quarter'].unique()
UniqueQuarters(recs) == {recs[i].quarter : i \in 1..Len(recs)}

\* sorted(quarters)[-1]
LastSorted(quarters) == CHOOSE t \in quarters : \A u \in quarters : TokenLeq(u, t)

ValuesOf(recs) == [i \in 1..Len(recs) |-> recs[i].value]

FlatPoints(from, n_quarters, v, c) ==
  IF n_quarters <= 0 THEN <<>>
  ELSE [i \in 1..n_quarters |-> Point(GetNextQuarter(from, i), v, c)]

\* _generate_baseline_predictions
GenerateBaselinePredictions(n_quarters, data_type, exports, imports) ==
  LET historical_data == IF data_type = "export" THEN exports ELSE imports
  IN  IF historical_data.recs = <<>>
        THEN Returned(FlatPoints(Quarter(BaseYear, BaseQuarterNo), n_quarters,
                                 Rat(0, 1), ZeroConfidence))
        ELSE LET avg_value == IF "value" \notin historical_data.cols THEN Rat(0, 1)
                              ELSE Mean(ValuesOf(historical_data.recs))
                 hasq      == "quarter" \in historical_data.cols
                 quarters  == IF hasq THEN UniqueQuarters(historical_data.recs)
                              ELSE {Quarter(BaseYear, BaseQuarterNo)}
                 truth     == IF hasq THEN ArrayTruth(Cardinality(quarters)) ELSE "true"
             IN  IF truth = "ValueError" THEN Raised("ValueError")
                 ELSE LET last_quarter == IF truth = "true" THEN LastSorted(quarters)
                                          ELSE Quarter(BaseYear, BaseQuarterNo)
                      IN  Returned(FlatPoints(last_quarter, n_quarters, avg_value,
                                              BaselineConfidence))

(***************************************************************************)
(* What scikit-learn returns.  A score is "raise" (training or evaluation  *)
(* raised), "nan", or a finite value "low" < "high"; the random forest's   *)
(* "fitraise" is a fit that raised.  predict() either raises or returns    *)
(* raw; the feature columns it reads never change between horizon steps,   *)
(* so one outcome serves every step of a call.                             *)
(***************************************************************************)
LinearOutcomes == {"raise", "nan", "low", "high"}

ForestOutcomes == {"fitraise", "raise", "nan", "low", "high"}

RawPredictions == {0 - 20, 600000}

PredictOutcomes ==
  {[raises |-> TRUE, raw |-> 0]} \cup {[raises |-> FALSE, raw |-> x] : x \in RawPredictions}

LibOutcomes == [linear : LinearOutcomes, forest : ForestOutcomes, predict : PredictOutcomes]

ScoreRank(r) == IF r = "high" THEN 2 ELSE IF r = "low" THEN 1 ELSE 0

\* r2 > best_score, best_score starting at -inf; a comparison with nan is false
ScoreGreater(r2, best_score) ==
  r2 \in {"low", "high"} /\ ScoreRank(r2) > ScoreRank(best_score)

\* predict_exports, the training block: the name of best_model, "none" for None
SelectBestModel(rows, lib) ==
  LET afterLinear ==
        IF rows >= 3 /\ ScoreGreater(lib.linear, "neginf")
          THEN [score |-> lib.linear, model |-> "linear"]
          ELSE [score |-> "neginf", model |-> "none"]
  IN  IF lib.forest = "fitraise" THEN afterLinear.model
      ELSE IF rows >= 3
        THEN (IF ScoreGreater(lib.forest, afterLinear.score) THEN "random_forest"
              ELSE afterLinear.model)
        ELSE "random_forest"

ConfidenceStart == 85

ConfidenceStep == 5

ConfidenceFloor == 50

\* the decay without its floor
StepConfidenceNoFloor(i) == ConfidenceStart - (i * ConfidenceStep)

\* the decay with its sign reversed
StepConfidenceRising(i) == Max(ConfidenceFloor, ConfidenceStart + (i * ConfidenceStep))

\* the confidence of step i of a model-based forecast
StepConfidence(i) == Max(ConfidenceFloor, ConfidenceStart - (i * ConfidenceStep))

\* the regressor's value as it comes
Unfloored(raw) == raw

\* max(0, pred_value)
Floored(raw) == Max(0, raw)

\* the loop of _generate_time_series_predictions, from step i on
RECURSIVE PredictionLoop(_, _, _, _, _)
PredictionLoop(cur_quarter, cur_value, i, n_quarters, predict) ==
  IF i > n_quarters THEN <<>>
  ELSE LET pred_value   == IF predict.raises THEN cur_value
                           ELSE Rat(Floored(predict.raw), 1)
           next_quarter == GetNextQuarter(cur_quarter, 1)
       IN  <<Point(next_quarter, pred_value, StepConfidence(i))>>
             \o PredictionLoop(next_quarter, pred_value, i + 1, n_quarters, predict)

\* current_features[feature_cols]: every column but quarter, quarter_date and the value
FeatureCols(row) ==
  [quarter_numeric |-> row.quarter_numeric, lags |-> row.lags, rolling |-> row.rolling,
   rstd |-> row.rstd, trend |-> row.trend]

\* the X_pred the loop of _generate_time_series_predictions hands to model.predict,
\* from step i on; the loop writes the quarter and the value of current_features
RECURSIVE PredictionInputs(_, _, _, _)
PredictionInputs(current_features, i, n_quarters, predict) ==
  IF i > n_quarters THEN <<>>
  ELSE LET pred_value   == IF predict.raises THEN current_features.value
                           ELSE Rat(Floored(predict.raw), 1)
           next_quarter == GetNextQuarter(current_features.quarter, 1)
       IN  <<FeatureCols(current_features)>>
             \o PredictionInputs([current_features EXCEPT !.quarter = next_quarter,
                                                          !.value = pred_value],
                                 i + 1, n_quarters, predict)

\* _generate_time_series_predictions with a trained model: its points, and the
\* inputs of its calls of model.predict
PredictionSteps(features, n_quarters, predict) ==
  LET last == features[Len(features)]
  IN  [status |-> "ok",
       points |-> PredictionLoop(last.quarter, Rat(last.value, 1), 1, n_quarters, predict),
       inputs |-> PredictionInputs([last EXCEPT !.value = Rat(last.value, 1)],
                                   1, n_quarters, predict)]

\* _generate_time_series_predictions
GenerateTimeSeriesPredictions(features, model, data_type, n_quarters, predict, exports, imports) ==
  IF model = "none"
    THEN GenerateBaselinePredictions(n_quarters, data_type, exports, imports)
    ELSE LET last == features[Len(features)]
         IN  Returned(PredictionLoop(last.quarter, Rat(last.value, 1), 1, n_quarters, predict))

\* the quarter tokens of the rows in sorted order
RECURSIVE SortedTokens(_)
SortedTokens(S) ==
  IF S = {} THEN <<>>
  ELSE LET t == CHOOSE x \in S : \A u \in S : TokenLeq(x, u)
       IN  <<t>> \o SortedTokens(S \ {t})

\* groupby('quarter').agg(sum).reset_index()
GroupByQuarterSum(df) ==
  LET keys == SortedTokens(UniqueQuarters(df))
  IN  [k \in 1..Len(keys) |->
         Record(keys[k], SumSeq(ValuesOf(KeepIdx(df, {i \in 1..Len(df) : df[i].quarter = keys[k]}, 1))))]

MinRows == 2

\* predict_exports / predict_imports, the preparation: the de-duplicated frame and its features
PrepareFeatures(data) ==
  LET df == PrepareTimeSeriesData(data)
  IN  [rows     |-> Len(df),
       features |-> IF Len(df) < MinRows THEN <<>> ELSE CreateFeatures(GroupByQuarterSum(df))]

\* predict_exports, given what PrepareFeatures made of the export records
PredictExportsResult(n_quarters, lib, prep, exports, imports) ==
  IF prep.rows < MinRows
    THEN GenerateBaselinePredictions(n_quarters, "export", exports, imports)
    ELSE IF Len(prep.features) < MinRows
      THEN GenerateBaselinePredictions(n_quarters, "export", exports, imports)
      ELSE GenerateTimeSeriesPredictions(prep.features,
             SelectBestModel(Len(prep.features), lib), "export",
             n_quarters, lib.predict, exports, imports)

\* predict_imports, given what PrepareFeatures made of the import records
PredictImportsResult(n_quarters, lib, prep, exports, imports) ==
  IF prep.rows < MinRows
    THEN GenerateBaselinePredictions(n_quarters, "import", exports, imports)
    ELSE IF Len(prep.features) < MinRows
      THEN GenerateBaselinePredictions(n_quarters, "import", exports, imports)
      ELSE IF lib.forest = "fitraise"
        THEN GenerateBaselinePredictions(n_quarters, "import", exports, imports)
        ELSE GenerateTimeSeriesPredictions(prep.features, "random_forest",
               "import", n_quarters, lib.predict, exports, imports)

RatSub(a, b) == Rat(a.n * b.d - b.n * a.d, a.d * b.d)

BalancePoint(e, m) ==
  LET balance == RatSub(e.value, m.value)
  IN  [quarter |-> e.quarter, value |-> balance,
       predicted_export |-> e.value, predicted_import |-> m.value,
       balance_type |-> IF balance.n >= 0 THEN "surplus" ELSE "deficit",
       confidence |-> Min(e.confidence, m.confidence)]

\* predict_trade_balance, given what its two calls returned
PredictTradeBalanceResult(export_preds, import_preds) ==
  IF export_preds.status # "ok" THEN export_preds
  ELSE IF import_preds.status # "ok" THEN import_preds
  ELSE LET k == Min(Len(export_preds.points), Len(import_preds.points))
       IN  Returned(IF k = 0 THEN <<>>
                    ELSE [i \in 1..k |-> BalancePoint(export_preds.points[i],
                                                      import_preds.points[i])])

(***************************************************************************)
(* EnhancedTimeSeriesAnalyzer.  A series is the value column of the frame  *)
(* prepare_time_series returns; the empty frame has no value column.       *)
(***************************************************************************)
RECURSIVE SortedDates(_)
SortedDates(S) ==
  IF S = {} THEN <<>>
  ELSE LET d == CHOOSE x \in S : \A u \in S : x <= u
       IN  <<d>> \o SortedDates(S \ {d})

\* groupby('quarter_date')[value_key].sum(), sorted by date
GroupByDateSum(df) ==
  LET dates == SortedDates({QuarterDate(df[i].quarter) : i \in 1..Len(df)})
  IN  [k \in 1..Len(dates) |->
         [quarter_date |-> dates[k],
          value |-> SumSeq(ValuesOf(KeepIdx(df,
                      {i \in 1..Len(df) : QuarterDate(df[i].quarter) = dates[k]}, 1)))]]

\* prepare_time_series
PrepareTimeSeries(data) ==
  IF data.recs = <<>> THEN <<>>
  ELSE IF "quarter" \notin data.cols \/ "value" \notin data.cols THEN <<>>
  ELSE GroupByDateSum(DropDuplicatesKeepLast(SortByDate(data.recs)))

ArimaMinObs == 10

SarimaMinObs == 20

SmoothingMinObs == 8

\* what a statsmodels fit and forecast may give: an exception, or one value per period
ForecastValues == {FromInt(7), FromInt(100), NaN}

\* the forecasts a fit may return for the next periods steps: a level, two
\* alternating levels, or finite values up to a non-finite last step
ForecastShapes(periods) ==
  IF periods = 0 THEN {<<>>}
  ELSE {[i \in 1..periods |-> v] : v \in ForecastValues}
         \cup {[i \in 1..periods |-> IF i % 2 = 1 THEN FromInt(7) ELSE FromInt(100)]}
         \cup {[i \in 1..periods |-> IF i = periods THEN NaN ELSE FromInt(100)]}

\* what fitting and forecasting does: it raises, or returns periods values
FitOutcomes(periods) ==
  {[raises |-> TRUE, forecast |-> <<>>]}
    \cup {[raises |-> FALSE, forecast |-> f] : f \in ForecastShapes(periods)}

Failure(reason) == [error |-> TRUE, reason |-> reason, forecast_values |-> <<>>]

Success(forecast) == [error |-> FALSE, reason |-> "", forecast_values |-> forecast]

\* a boundary that lets the exception through
CatchNothing(body) == body

\* the try / except Exception around a strategy's body
CatchAll(body) == IF body.reason = "raised" THEN Failure("exception") ELSE body

\* a body that fits whatever the number of observations
StrategyBodyUngated(ts, min_obs, fit) ==
  IF ts = <<>> THEN [error |-> TRUE, reason |-> "raised", forecast_values |-> <<>>]
  ELSE IF fit.raises THEN [error |-> TRUE, reason |-> "raised", forecast_values |-> <<>>]
  ELSE Success(fit.forecast)

\* the body of a strategy: the value column, the minimum, the fit, the forecast
StrategyBody(ts, min_obs, fit) ==
  IF ts = <<>> THEN [error |-> TRUE, reason |-> "raised", forecast_values |-> <<>>]
  ELSE IF Len(ts) < min_obs THEN Failure("insufficient data")
  ELSE IF fit.raises THEN [error |-> TRUE, reason |-> "raised", forecast_values |-> <<>>]
  ELSE Success(fit.forecast)

\* arima_forecast
ArimaForecastResult(ts, fit) == CatchAll(StrategyBody(ts, ArimaMinObs, fit))

\* the seasonal strategy behind the autoregressive strategy's minimum
SarimaForecastLowMinimum(ts, fit) == CatchAll(StrategyBody(ts, ArimaMinObs, fit))

\* sarima_forecast
SarimaForecastResult(ts, fit) == CatchAll(StrategyBody(ts, SarimaMinObs, fit))

\* exponential_smoothing_forecast
SmoothingForecastResult(ts, fit) == CatchAll(StrategyBody(ts, SmoothingMinObs, fit))

\* sum() of floats from the integer 0 (builds from Python 3.12 on compensate the
\* running error, which changes at most the last bits of a sum of several terms)
RECURSIVE FSum(_)
FSum(s) == IF s = <<>> THEN FZero ELSE FAdd(FSum(SubSeq(s, 1, Len(s) - 1)), s[Len(s)])

ArimaWeight == FLit(3, 10)

SarimaWeight == FLit(4, 10)

SmoothingWeight == FLit(3, 10)

\* the forecasts and weights lists of step i: the strategies without an error, in order
Members(results, weights, i) ==
  LET pick(k) == IF results[k].error THEN <<>>
                 ELSE <<[f |-> results[k].forecast_values[i], w |-> weights[k]]>>
  IN  pick(1) \o pick(2) \o pick(3)

\* the weights not renormalised over the members
WeightedAverageFixed(members) ==
  FDiv(FSum([k \in 1..Len(members) |-> FMul(members[k].f, members[k].w)]),
       FSum(<<ArimaWeight, SarimaWeight, SmoothingWeight>>))

\* sum(f * w for f, w in zip(forecasts, weights)) / sum(weights)
WeightedAverage(members) ==
  FDiv(FSum([k \in 1..Len(members) |-> FMul(members[k].f, members[k].w)]),
       FSum([k \in 1..Len(members) |-> members[k].w]))

\* one pass of the loop of ensemble_forecast
EnsembleStep(results, weights, i) ==
  LET members == Members(results, weights, i)
  IN  IF members # <<>> THEN WeightedAverage(members) ELSE FZero

\* ensemble_forecast, given what its three strategies returned
EnsembleForecastResult(periods, arima_result, sarima_result, exp_result) ==
  LET results == <<arima_result, sarima_result, exp_result>>
      weights == <<ArimaWeight, SarimaWeight, SmoothingWeight>>
  IN  [error |-> FALSE, reason |-> "",
       ensemble_forecasts |->
         IF periods = 0 THEN <<>>
         ELSE [i \in 1..periods |-> EnsembleStep(results, weights, i)],
       model_contributions |->
         [arima |-> ~arima_result.error, sarima |-> ~sarima_result.error,
          exponential_smoothing |-> ~exp_result.error],
       individual_forecasts |->
         [arima |-> arima_result.forecast_values, sarima |-> sarima_result.forecast_values,
          exponential_smoothing |-> exp_result.forecast_values]]

\* what the three strategies may return for a series, over the outcomes of their fits
StrategyResults(ts, periods) ==
  [arima |-> {ArimaForecastResult(ts, fit) : fit \in FitOutcomes(periods)},
   sarima |-> {SarimaForecastResult(ts, fit) : fit \in FitOutcomes(periods)},
   exponential_smoothing |-> {SmoothingForecastResult(ts, fit) : fit \in FitOutcomes(periods)}]

(***************************************************************************)
(* EnhancedTimeSeriesAnalyzer.statistical_analysis, the parts of the       *)
(* profile that the recommendation rules and the summary read: the mean,   *)
(* the linear trend and the volatility.  The distribution and stationarity *)
(* tests sit in their own try blocks and are read by no rule.              *)
(***************************************************************************)
SeriesValues(ts) == [i \in 1..Len(ts) |-> ts[i].value]

\* n * sum(x * y) - sum(x) * sum(y) for x = np.arange(n): the slope's numerator
SumXY(y) ==
  Len(y) * SumSeq([i \in 1..Len(y) |-> (i - 1) * y[i]])
    - SumSeq([i \in 1..Len(y) |-> i - 1]) * SumSeq(y)

\* n * sum(x * x) - sum(x) ^ 2 for x = np.arange(n)
SumXX(n) == n * SumSeq([i \in 1..n |-> Sq(i - 1)]) - Sq(SumSeq([i \in 1..n |-> i - 1]))

\* n * sum(y * y) - sum(y) ^ 2
SumYY(y) == Len(y) * SumSeq([i \in 1..Len(y) |-> Sq(y[i])]) - Sq(SumSeq(y))

\* r_value ** 2, in floating point; linregress gives r = 0.0 for constant values
RSquared(y) ==
  IF SumYY(y) = 0 THEN FZero
  ELSE FDiv(FMul(FromInt(SumXY(y)), FromInt(SumXY(y))),
            FMul(FromInt(SumXX(Len(y))), FromInt(SumYY(y))))

\* p_value < 0.05 as linregress may decide it: for two points p is 0.0 when the
\* values differ and 1.0 when they are equal, for r = 0 it is 1.0, and otherwise
\* it comes from the t distribution with n - 2 degrees of freedom
SignificanceOutcomes(y) ==
  IF Len(y) = 2 THEN {y[1] # y[2]}
  ELSE IF SumXY(y) = 0 \/ SumYY(y) = 0 THEN {FALSE}
  ELSE BOOLEAN

NoTrend ==
  [error |-> TRUE, trend_direction |-> "none", r_squared |-> FZero, significant |-> FALSE]

\* _analyze_trend
AnalyzeTrend(y, significant) ==
  IF Len(y) > 1
    THEN [error |-> FALSE,
          trend_direction |-> IF SumXY(y) > 0 THEN "increasing" ELSE "decreasing",
          r_squared |-> RSquared(y),
          significant |-> significant]
    ELSE NoTrend

\* np.diff(values) / values[:-1] * 100 for one pair, in whole percents
PercentReturn(prev, cur) ==
  IF prev > 0 THEN ((cur - prev) * 100) \div prev
  ELSE 0 - (((cur - prev) * 100) \div (0 - prev))

Returns(y) == [i \in 1..(Len(y) - 1) |-> PercentReturn(y[i], y[i + 1])]

\* np.std(returns) ** 2
Variance(r) == Rat(Len(r) * SumSeq([i \in 1..Len(r) |-> Sq(r[i])]) - Sq(SumSeq(r)), Sq(Len(r)))

\* returns > 0 for one pair: a zero predecessor gives inf, -inf or nan
PositiveReturn(prev, cur) ==
  (prev > 0 /\ cur > prev) \/ (prev < 0 /\ cur < prev) \/ (prev = 0 /\ cur > 0)

\* returns < 0 for one pair
NegativeReturn(prev, cur) ==
  (prev > 0 /\ cur < prev) \/ (prev < 0 /\ cur > prev) \/ (prev = 0 /\ cur < 0)

\* what _analyze_volatility gives when np.max raises
VolatilityError ==
  [error |-> TRUE, finite |-> FALSE, variance |-> Rat(0, 1),
   positive_returns |-> 0, negative_returns |-> 0]

\* _analyze_volatility: np.max of no returns raises, which the handler turns into
\* an error record; a zero predecessor makes a return infinite and the std nan
AnalyzeVolatility(y) ==
  IF Len(y) < 2 THEN VolatilityError
  ELSE LET pairs == 1..(Len(y) - 1)
           zero  == \E i \in pairs : y[i] = 0
       IN  [error |-> FALSE,
            finite |-> ~zero,
            variance |-> IF zero THEN Rat(0, 1) ELSE Variance(Returns(y)),
            positive_returns |-> Cardinality({i \in pairs : PositiveReturn(y[i], y[i + 1])}),
            negative_returns |-> Cardinality({i \in pairs : NegativeReturn(y[i], y[i + 1])})]

\* statistical_analysis
StatisticalAnalysis(ts, significant) ==
  IF ts = <<>>
    THEN [error |-> TRUE,
          basic_statistics |-> [count |-> 0, mean |-> Rat(0, 1)],
          trend_analysis |-> NoTrend,
          volatility_analysis |-> VolatilityError]
    ELSE [error |-> FALSE,
          basic_statistics |-> [count |-> Len(ts), mean |-> Mean(SeriesValues(ts))],
          trend_analysis |-> AnalyzeTrend(SeriesValues(ts), significant),
          volatility_analysis |-> AnalyzeVolatility(SeriesValues(ts))]

(***************************************************************************)
(* EnhancedTimeSeriesAnalyzer._generate_recommendations.  A recommendation *)
(* is its type, priority and confidence; the message is fixed by the type. *)
(***************************************************************************)
Recommendation(type, priority, confidence) ==
  [type |-> type, priority |-> priority, confidence |-> confidence]

DeficitConfidence == FLit(8, 10)

VolatilityConfidence == FLit(7, 10)

VolatilityThreshold == 50

\* the entry of a series that was not analysed: {}
NoAnalysis == [present |-> FALSE]

HasStatistics(analysis) == analysis.present /\ ~analysis.statistical_analysis.error

\* the export trend rule
ExportTrendRule(export_analysis) ==
  IF HasStatistics(export_analysis)
       /\ export_analysis.statistical_analysis.trend_analysis.significant
    THEN LET trend == export_analysis.statistical_analysis.trend_analysis
         IN  <<Recommendation(IF trend.trend_direction = "increasing"
                                THEN "export_growth" ELSE "export_decline",
                              "high", trend.r_squared)>>
    ELSE <<>>

\* the trade balance rule: mean_balance < 0
TradeDeficitRule(balance_analysis) ==
  IF HasStatistics(balance_analysis)
       /\ balance_analysis.statistical_analysis.basic_statistics.mean.n < 0
    THEN <<Recommendation("trade_deficit", "high", DeficitConfidence)>>
    ELSE <<>>

\* volatility > 50, a comparison that is false for nan
ExceedsThreshold(volatility) ==
  /\ ~volatility.error
  /\ volatility.finite
  /\ volatility.variance.n > Sq(VolatilityThreshold) * volatility.variance.d

\* the volatility rule
VolatilityRule(export_analysis) ==
  IF HasStatistics(export_analysis)
       /\ ExceedsThreshold(export_analysis.statistical_analysis.volatility_analysis)
    THEN <<Recommendation("high_volatility", "medium", VolatilityConfidence)>>
    ELSE <<>>

\* the rules as a chain in which the first rule that fires ends the list
GenerateRecommendationsFirstMatch(analysis_results) ==
  LET trend == ExportTrendRule(analysis_results.exports_analysis)
      deficit == TradeDeficitRule(analysis_results.trade_balance_analysis)
  IN  IF trend # <<>> THEN trend
      ELSE IF deficit # <<>> THEN deficit
      ELSE VolatilityRule(analysis_results.exports_analysis)

\* _generate_recommendations
GenerateRecommendations(analysis_results) ==
  ExportTrendRule(analysis_results.exports_analysis)
    \o TradeDeficitRule(analysis_results.trade_balance_analysis)
    \o VolatilityRule(analysis_results.exports_analysis)

(***************************************************************************)
(* EnhancedTimeSeriesAnalyzer.comprehensive_analysis and                   *)
(* run_complete_analysis.  The fits are functions of the series, so the    *)
(* ensemble's three fits give what the three strategies' own fits gave.    *)
(***************************************************************************)
DefaultPeriods == 4

\* the four forecasts of one series
SeriesForecasts(arima_result, sarima_result, exp_result) ==
  [arima |-> arima_result,
   sarima |-> sarima_result,
   exponential_smoothing |-> exp_result,
   ensemble |-> EnsembleForecastResult(DefaultPeriods, arima_result, sarima_result,
                                       exp_result)]

\* the entry of one series that has observations
SeriesAnalysis(statistical_analysis, forecasts) ==
  [present |-> TRUE, statistical_analysis |-> statistical_analysis, forecasts |-> forecasts]

\* what the block of one series may leave in analysis_results
SeriesAnalyses(data) ==
  LET ts == PrepareTimeSeries(data)
  IN  IF data.recs = <<>> \/ ts = <<>> THEN {NoAnalysis}
      ELSE {SeriesAnalysis(statistical_analysis, forecasts) :
              statistical_analysis \in
                {StatisticalAnalysis(ts, significant) :
                   significant \in SignificanceOutcomes(SeriesValues(ts))},
              forecasts \in
                UNION {{SeriesForecasts(a, s, e) :
                          a \in r.arima, s \in r.sarima, e \in r.exponential_smoothing} :
                         r \in {StrategyResults(ts, DefaultPeriods)}}}

\* _comparative_analysis: the inner merge on quarter_date needs two common dates
ComparativeAnalysis(exports, imports) ==
  LET export_ts == PrepareTimeSeries(exports)
      import_ts == PrepareTimeSeries(imports)
      common == {i \in 1..Len(export_ts) :
                   \E j \in 1..Len(import_ts) :
                     export_ts[i].quarter_date = import_ts[j].quarter_date}
  IN  [error |-> export_ts = <<>> \/ import_ts = <<>> \/ Cardinality(common) < 2]

\* comprehensive_analysis, given what the three blocks and the comparison left
ComprehensiveAnalysisResult(export_analysis, import_analysis, balance_analysis, comparative) ==
  [status |-> "ok",
   exports_analysis |-> export_analysis,
   imports_analysis |-> import_analysis,
   trade_balance_analysis |-> balance_analysis,
   comparative_analysis |-> comparative,
   recommendations |->
     GenerateRecommendations([exports_analysis |-> export_analysis,
                              imports_analysis |-> import_analysis,
                              trade_balance_analysis |-> balance_analysis])]

\* writing the results file succeeds or raises
SaveOutcomes == {"saved", "raised"}

\* run_complete_analysis: any exception becomes {"error": ...}
RunCompleteAnalysisResult(analysis_results, save) ==
  IF save = "raised" THEN [status |-> "error"] ELSE analysis_results

\* what run_complete_analysis may return on the loaded records
AnalysisOutcomes(exports, imports, balance) ==
  LET comparative == ComparativeAnalysis(exports, imports)
  IN  {RunCompleteAnalysisResult(ComprehensiveAnalysisResult(e, m, b, comparative), save) :
         e \in SeriesAnalyses(exports), m \in SeriesAnalyses(imports),
         b \in SeriesAnalyses(balance), save \in SaveOutcomes}

\* what predict_exports and predict_imports may return, over the library's outcomes
ExportOutcomes(n, exports, imports) ==
  LET prep == PrepareFeatures(exports)
  IN  {PredictExportsResult(n, lib, prep, exports, imports) : lib \in LibOutcomes}

ImportOutcomes(n, exports, imports) ==
  LET prep == PrepareFeatures(imports)
  IN  {PredictImportsResult(n, lib, prep, exports, imports) : lib \in LibOutcomes}

(***************************************************************************)
(* TradePredictor.run_full_prediction_pipeline.  The regressors are seeded *)
(* (random_state=42), so the calls predict_trade_balance makes on the same *)
(* records give what the pipeline's own two calls gave.  The record lists  *)
(* carry no commodity and no destination_country column, for which the     *)
(* commodity and country predictions are empty lists.                      *)
(***************************************************************************)
PipelineQuarters == 4

\* the exception that leaves the pipeline, named after the step that raised it
PipelineRaised(failed) == [status |-> "raised", failed |-> failed]

\* run_full_prediction_pipeline, given what its calls and the write returned;
\* its handler logs the exception and raises it again
RunFullPredictionPipelineResult(export_preds, import_preds, save) ==
  IF export_preds.status # "ok" THEN PipelineRaised("export_predictions")
  ELSE IF import_preds.status # "ok" THEN PipelineRaised("import_predictions")
  ELSE IF save = "raised" THEN PipelineRaised("save")
  ELSE [status |-> "ok",
        export_predictions |-> export_preds.points,
        import_predictions |-> import_preds.points,
        balance_predictions |-> PredictTradeBalanceResult(export_preds, import_preds).points,
        commodity_predictions |-> <<>>,
        country_predictions |-> <<>>]

PipelineOutcomes(exports, imports) ==
  {RunFullPredictionPipelineResult(e, m, save) :
     e \in ExportOutcomes(PipelineQuarters, exports, imports),
     m \in ImportOutcomes(PipelineQuarters, exports, imports),
     save \in SaveOutcomes}

(***************************************************************************)
(* ComprehensiveAnalysisRunner._compile_recommendations and the two        *)
(* generators it calls.  results holds what the stages stored: a stage     *)
(* that did not run or that raised stored nothing.                         *)
(***************************************************************************)
NotStored == [status |-> "none"]

\* process_multiple_files returns the keys files_processed, combined_analysis and metadata
Processed(records) ==
  [status |-> "ok", keys |-> {"files_processed", "combined_analysis", "metadata"},
   total_records_extracted |-> records]

HighExportThreshold == 500000

DeficitRiskThreshold == 200000

FewRecords == 50

\* _generate_forecast_recommendations
GenerateForecastRecommendations(forecasts) ==
  LET export_preds == forecasts.export_predictions
      balance_preds == forecasts.balance_predictions
  IN  (IF export_preds # <<>>
            /\ RatLt(Rat(HighExportThreshold, 1), export_preds[1].value)
         THEN <<Recommendation("export_opportunity", "high",
                               FLit(export_preds[1].confidence, 100))>>
         ELSE <<>>)
      \o
      (IF balance_preds # <<>>
            /\ RatLt(balance_preds[1].value, Rat(0 - DeficitRiskThreshold, 1))
         THEN <<Recommendation("trade_deficit_risk", "high", DeficitConfidence)>>
         ELSE <<>>)

\* _generate_data_recommendations
GenerateDataRecommendations(dp_results) ==
  IF "summary" \in dp_results.keys /\ dp_results.total_records_extracted < FewRecords
    THEN <<Recommendation("data_collection", "medium", VolatilityConfidence)>>
    ELSE <<>>

\* priority_order.get(x.get('priority', 'medium'), 0)
PriorityOrder(rec) ==
  IF rec.priority = "high" THEN 3
  ELSE IF rec.priority = "medium" THEN 2
  ELSE IF rec.priority = "low" THEN 1
  ELSE 0

RECURSIVE Reversed(_)
Reversed(s) == IF s = <<>> THEN <<>> ELSE Reversed(Tail(s)) \o <<Head(s)>>

\* the records of one key, in the order of the list
WithKey(recs, key) ==
  LET Test(rec) == PriorityOrder(rec) = key IN SelectSeq(recs, Test)

\* an ascending sort turned round, which turns round the records of equal priority
SortAscendingReversed(recs) ==
  Reversed(WithKey(recs, 0) \o WithKey(recs, 1) \o WithKey(recs, 2) \o WithKey(recs, 3))

\* list.sort(key=..., reverse=True): descending keys, equal keys in the order of the list
SortByPriority(recs) ==
  WithKey(recs, 3) \o WithKey(recs, 2) \o WithKey(recs, 1) \o WithKey(recs, 0)

\* the three extends of _compile_recommendations
Arrivals(results) ==
  [time_series |->
     IF results.time_series_results.status = "ok"
       THEN results.time_series_results.recommendations ELSE <<>>,
   forecasting |->
     IF results.forecasting_results.status = "ok"
       THEN GenerateForecastRecommendations(results.forecasting_results) ELSE <<>>,
   data |->
     IF results.data_processing_results.status = "ok"
       THEN GenerateDataRecommendations(results.data_processing_results) ELSE <<>>]

\* _compile_recommendations
CompileRecommendationsResult(results) ==
  LET arrivals == Arrivals(results)
  IN  [status |-> "ok",
       arrivals |-> arrivals,
       recommendations |->
         SortByPriority(arrivals.time_series \o arrivals.forecasting \o arrivals.data)]

\* what the stages of a run on the loaded records may have stored
StoredResults(exports, imports, balance) ==
  [time_series_results : {NotStored} \cup AnalysisOutcomes(exports, imports, balance),
   forecasting_results :
     {NotStored} \cup {r \in PipelineOutcomes(exports, imports) : r.status = "ok"},
   data_processing_results : {NotStored} \cup {Processed(n) : n \in {FewRecords - 1, FewRecords}}]

(***************************************************************************)
(* ComprehensiveAnalysisRunner.run_comprehensive_analysis.  The run is a   *)
(* sequence of steps on self.results, kept here together with the          *)
(* configured analysis_components.  Clock readings are kept as set (TRUE)  *)
(* or None (FALSE).  Of the analysis and of the predictions a stage        *)
(* stores, results keeps the status, the series that were analysed and the *)
(* number of points forecast; their contents are those of                  *)
(* RunCompleteAnalysis and RunFullPredictionPipeline.  attempted lists the *)
(* stage methods entered so far.                                           *)
(***************************************************************************)
ForecastPeriods == 8

\* the components in the order in which run_comprehensive_analysis tests them
StageOrder == <<"data_processing", "time_series", "forecasting", "reporting">>

\* config['analysis_components']: the default, the two lists of
\* test_comprehensive_pipeline.py, and a run without data processing and profiling
ComponentLists ==
  {{"data_processing", "time_series", "forecasting", "reporting"},
   {"data_processing"},
   {"data_processing", "time_series"},
   {"forecasting", "reporting"}}

\* the first enabled component from position k of the order on, or the end of the try block
RECURSIVE StepFrom(_, _)
StepFrom(components, k) ==
  IF k > Len(StageOrder) THEN "finishing"
  ELSE IF StageOrder[k] \in components THEN StageOrder[k]
  ELSE StepFrom(components, k + 1)

\* self.results['summary'] before _generate_execution_summary has run: {}
NoSummary == [computed |-> FALSE]

NoReport == [written |-> FALSE]

\* self.results after __init__, and the components the runner was configured with
NewResults(components) ==
  [execution_start |-> FALSE, execution_end |-> FALSE,
   stages_completed |-> <<>>, errors |-> <<>>, summary |-> NoSummary,
   data_processing_results |-> NotStored, time_series_results |-> NotStored,
   forecasting_results |-> NotStored, report |-> NoReport, attempted |-> <<>>,
   analysis_components |-> components]

\* an operation, what it was called on and with, and what it gave
Call(op, key, n, out) == [op |-> op, key |-> key, n |-> n, out |-> out]

\* where a run stands: the step to take next, or how it ended
Running(step, results) == Call("run_comprehensive_analysis", step, ForecastPeriods, results)

SeriesNames == {"exports_analysis", "imports_analysis", "trade_balance_analysis"}

\* what results keeps of the dictionary run_complete_analysis returned
AnalysisStored(r) ==
  IF r.status # "ok" THEN [status |-> "error"]
  ELSE [status |-> "ok", analysed |-> {name \in SeriesNames : r[name].present}]

\* what results keeps of the dictionary run_full_prediction_pipeline returned
PredictionsStored(r) ==
  [status |-> "ok",
   export_points |-> Len(r.export_predictions),
   import_points |-> Len(r.import_predictions),
   balance_points |-> Len(r.balance_predictions)]

\* an except block that records the failure and leaves execution_end unset
RunFailedWithoutEnd(results) ==
  Running("raised",
          [results EXCEPT !.errors = Append(@, "Comprehensive analysis failed")])

\* the except block of run_comprehensive_analysis
RunFailed(results) ==
  Running("raised",
          [results EXCEPT !.errors = Append(@, "Comprehensive analysis failed"),
                          !.execution_end = TRUE])

\* _run_enhanced_data_processing; its handler raises again
RunEnhancedDataProcessingResult(results, processed) ==
  LET entered == [results EXCEPT !.attempted = Append(@, "data_processing")]
  IN  IF processed.status # "ok" THEN RunFailed(entered)
      ELSE Running(StepFrom(results.analysis_components, 2),
                   [entered EXCEPT !.stages_completed = Append(@, "data_processing"),
                                   !.data_processing_results = processed])

\* the analyzer's constructor reads the three files, which succeeds or raises
LoadOutcomes == {"loaded", "raised"}

\* _run_time_series_analysis
RunTimeSeriesAnalysisResult(results, load, analysis_results) ==
  LET entered == [results EXCEPT !.attempted = Append(@, "time_series")]
  IN  IF load = "raised"
        THEN Running(StepFrom(results.analysis_components, 3),
                     [entered EXCEPT !.errors = Append(@, "Time Series")])
        ELSE Running(StepFrom(results.analysis_components, 3),
                     [entered EXCEPT !.stages_completed = Append(@, "time_series_analysis"),
                                     !.time_series_results = AnalysisStored(analysis_results)])

\* _run_advanced_forecasting
RunAdvancedForecastingResult(results, predictions) ==
  LET entered == [results EXCEPT !.attempted = Append(@, "forecasting")]
  IN  IF predictions.status # "ok"
        THEN Running(StepFrom(results.analysis_components, 4),
                     [entered EXCEPT !.errors = Append(@, "Forecasting")])
        ELSE Running(StepFrom(results.analysis_components, 4),
                     [entered EXCEPT !.stages_completed = Append(@, "forecasting"),
                                     !.forecasting_results = PredictionsStored(predictions)])

\* the dictionary _generate_comprehensive_report writes
ComprehensiveReport(results) ==
  [written |-> TRUE,
   forecast_horizon |-> ForecastPeriods,
   time_series_analysis |-> results.time_series_results,
   forecasting_results |-> results.forecasting_results,
   execution_summary |-> results.summary]

\* _generate_comprehensive_report
GenerateComprehensiveReportResult(results, save) ==
  LET entered == [results EXCEPT !.attempted = Append(@, "reporting")]
  IN  IF save = "raised"
        THEN Running("finishing", [entered EXCEPT !.errors = Append(@, "Reporting")])
        ELSE Running("finishing",
                     [entered EXCEPT !.stages_completed = Append(@, "reporting"),
                                     !.report = ComprehensiveReport(results)])

\* _generate_execution_summary
GenerateExecutionSummary(results) ==
  [computed |-> TRUE,
   has_duration |-> results.execution_start /\ results.execution_end,
   stages_completed |-> Len(results.stages_completed),
   errors_count |-> Len(results.errors)]

\* lines 101-105 of run_comprehensive_analysis: the run is logged as completed successfully
RunCompleted(results) ==
  LET ended == [results EXCEPT !.execution_end = TRUE]
  IN  Running("returned", [ended EXCEPT !.summary = GenerateExecutionSummary(ended)])

(***************************************************************************)
(* PipelineRunner.run_full_pipeline under its default configuration        *)
(* (neither stage skipped).  A stage is its outcome: data processing and   *)
(* the summary report let their exceptions out, the prediction and the     *)
(* analysis stage record theirs in errors.                                 *)
(***************************************************************************)
\* _calculate_duration: 0 unless both clock readings are set
CalculateDuration(results) == results.pipeline_start /\ results.pipeline_end

\* the dictionary _generate_summary_report writes
PipelineSummary(results) ==
  [written |-> TRUE,
   start_time |-> results.pipeline_start,
   end_time |-> results.pipeline_end,
   duration_measured |-> CalculateDuration(results),
   stages_completed |-> results.stages_completed,
   errors |-> results.errors]

\* the except block of run_full_pipeline
PipelineFailed(results) ==
  [status |-> "raised",
   results |-> [results EXCEPT !.errors = Append(@, "Pipeline failed"),
                               !.pipeline_end = TRUE]]

\* run_full_pipeline, given how its stages and the write of the summary went
RunFullPipelineResult(processing, predictions, analysis, save) ==
  LET started   == [pipeline_start |-> TRUE, pipeline_end |-> FALSE,
                    stages_completed |-> <<>>, errors |-> <<>>, summary |-> NoReport]
      processed == [started EXCEPT !.stages_completed = Append(@, "data_processing")]
      predicted == IF predictions = "ok"
                     THEN [processed EXCEPT !.stages_completed = Append(@, "predictions")]
                     ELSE [processed EXCEPT !.errors = Append(@, "Predictions")]
      analysed  == IF analysis = "ok"
                     THEN [predicted EXCEPT !.stages_completed = Append(@, "analysis")]
                     ELSE [predicted EXCEPT !.errors = Append(@, "Analysis")]
  IN  IF processing = "raised" THEN PipelineFailed(started)
      ELSE IF save = "raised" THEN PipelineFailed(analysed)
      ELSE [status |-> "returned",
            results |-> [analysed EXCEPT !.summary = PipelineSummary(analysed),
                                         !.pipeline_end = TRUE]]

(***************************************************************************)
(* The operations.  A caller invokes one operation on the loaded object    *)
(* and takes what it returns (ret); Discard is the caller dropping the     *)
(* result before the next call.                                            *)
(***************************************************************************)
Horizons == 0..MaxHorizon

Idle == Call("none", "none", 0, Returned(<<>>))

GenerateBaseline ==
  /\ ret = Idle
  /\ ret' \in {Call("baseline", data_type, n,
                    GenerateBaselinePredictions(n, data_type, exports_data, imports_data)) :
                 n \in Horizons, data_type \in {"export", "import"}}
  /\ UNCHANGED <<exports_data, imports_data, trade_balance_data, unique_array>>

PredictExports ==
  /\ ret = Idle
  /\ ret' \in UNION {{Call("predict_exports", "export", n, out) :
                        out \in ExportOutcomes(n, exports_data, imports_data)} : n \in Horizons}
  /\ UNCHANGED <<exports_data, imports_data, trade_balance_data, unique_array>>

PredictImports ==
  /\ ret = Idle
  /\ ret' \in UNION {{Call("predict_imports", "import", n, out) :
                        out \in ImportOutcomes(n, exports_data, imports_data)} : n \in Horizons}
  /\ UNCHANGED <<exports_data, imports_data, trade_balance_data, unique_array>>

PredictTradeBalance ==
  /\ ret = Idle
  /\ \E n \in Horizons :
       \E results \in {{PredictTradeBalanceResult(e, m) :
                          e \in ExportOutcomes(n, exports_data, imports_data),
                          m \in ImportOutcomes(n, exports_data, imports_data)}} :
         ret' \in {Call("predict_trade_balance", "balance", n, out) : out \in results}
  /\ UNCHANGED <<exports_data, imports_data, trade_balance_data, unique_array>>

\* _generate_time_series_predictions, on the features of a series and a trained model
GenerateTimeSeriesPredictionsSteps ==
  /\ ret = Idle
  /\ \E key \in {"export", "import"} :
       \E features \in {PrepareFeatures(IF key = "export" THEN exports_data
                                          ELSE imports_data).features} :
         /\ Len(features) >= MinRows
         /\ ret' \in {Call("generate_time_series_predictions", key, n,
                            PredictionSteps(features, n, predict)) :
                         n \in Horizons, predict \in PredictOutcomes}
  /\ UNCHANGED <<exports_data, imports_data, trade_balance_data, unique_array>>

Periods == 0..MaxPeriods

SeriesOf(key, exports, imports) ==
  PrepareTimeSeries(IF key = "export" THEN exports ELSE imports)

StrategyOutcomes(op, key, exports, imports) ==
  LET ts == SeriesOf(key, exports, imports)
  IN  UNION {{Call(op, key, periods,
                   IF op = "arima" THEN ArimaForecastResult(ts, fit)
                   ELSE IF op = "sarima" THEN SarimaForecastResult(ts, fit)
                   ELSE SmoothingForecastResult(ts, fit)) :
                fit \in FitOutcomes(periods)} : periods \in Periods}

EnsembleOutcomes(key, exports, imports) ==
  LET ts == SeriesOf(key, exports, imports)
  IN  UNION {UNION {{Call("ensemble", key, periods, EnsembleForecastResult(periods, a, s, e)) :
                       a \in r.arima, s \in r.sarima, e \in r.exponential_smoothing} :
                      r \in {StrategyResults(ts, periods)}} : periods \in Periods}

ArimaForecast ==
  /\ ret = Idle
  /\ \E key \in {"export", "import"} :
       ret' \in StrategyOutcomes("arima", key, exports_data, imports_data)
  /\ UNCHANGED <<exports_data, imports_data, trade_balance_data, unique_array>>

SarimaForecast ==
  /\ ret = Idle
  /\ \E key \in {"export", "import"} :
       ret' \in StrategyOutcomes("sarima", key, exports_data, imports_data)
  /\ UNCHANGED <<exports_data, imports_data, trade_balance_data, unique_array>>

ExponentialSmoothingForecast ==
  /\ ret = Idle
  /\ \E key \in {"export", "import"} :
       ret' \in StrategyOutcomes("exponential_smoothing", key, exports_data, imports_data)
  /\ UNCHANGED <<exports_data, imports_data, trade_balance_data, unique_array>>

EnsembleForecast ==
  /\ ret = Idle
  /\ \E key \in {"export", "import"} :
       ret' \in EnsembleOutcomes(key, exports_data, imports_data)
  /\ UNCHANGED <<exports_data, imports_data, trade_balance_data, unique_array>>

\* what a builder hands back: the rows of the frame
Built(rows) == [status |-> "ok", rows |-> rows]

PrepareSeriesData ==
  /\ ret = Idle
  /\ \E key \in {"export", "import"} :
       ret' = Call("prepare_time_series_data", key, 0,
                   Built(PrepareTimeSeriesData(IF key = "export" THEN exports_data
                                               ELSE imports_data)))
  /\ UNCHANGED <<exports_data, imports_data, trade_balance_data, unique_array>>

PrepareSeries ==
  /\ ret = Idle
  /\ \E key \in {"export", "import"} :
       ret' = Call("prepare_time_series", key, 0,
                   Built(SeriesOf(key, exports_data, imports_data)))
  /\ UNCHANGED <<exports_data, imports_data, trade_balance_data, unique_array>>

\* statistical_analysis, called on the series prepare_time_series built
ProfileSeries ==
  /\ ret = Idle
  /\ \E key \in {"export", "import"} :
       LET ts == SeriesOf(key, exports_data, imports_data)
       IN  ret' \in {Call("statistical_analysis", key, 0, StatisticalAnalysis(ts, significant)) :
                       significant \in SignificanceOutcomes(SeriesValues(ts))}
  /\ UNCHANGED <<exports_data, imports_data, trade_balance_data, unique_array>>

\* run_complete_analysis, with comprehensive_analysis inside its try block
RunCompleteAnalysis ==
  /\ ret = Idle
  /\ ret' \in {Call("run_complete_analysis", "all", DefaultPeriods, out) :
                 out \in AnalysisOutcomes(exports_data, imports_data, trade_balance_data)}
  /\ UNCHANGED <<exports_data, imports_data, trade_balance_data, unique_array>>

\* run_full_prediction_pipeline
RunFullPredictionPipeline ==
  /\ ret = Idle
  /\ ret' \in {Call("run_full_prediction_pipeline", "all", PipelineQuarters, out) :
                 out \in PipelineOutcomes(exports_data, imports_data)}
  /\ UNCHANGED <<exports_data, imports_data, trade_balance_data, unique_array>>

\* _compile_recommendations, on what the stages stored
CompileRecommendations ==
  /\ ret = Idle
  /\ ret' \in {Call("compile_recommendations", "all", 0, CompileRecommendationsResult(results)) :
                 results \in StoredResults(exports_data, imports_data, trade_balance_data)}
  /\ UNCHANGED <<exports_data, imports_data, trade_balance_data, unique_array>>

\* run_comprehensive_analysis, up to its first stage
StartRun ==
  /\ ret = Idle
  /\ ret' \in {Running(StepFrom(components, 1),
                         [NewResults(components) EXCEPT !.execution_start = TRUE]) :
                   components \in ComponentLists}
  /\ UNCHANGED <<exports_data, imports_data, trade_balance_data, unique_array>>

\* the step of a run that is under way
AtStep(step) == ret.op = "run_comprehensive_analysis" /\ ret.key = step

\* stage 1: process_multiple_files returns or raises (the workbook is missing)
RunEnhancedDataProcessing ==
  /\ AtStep("data_processing")
  /\ ret' \in {RunEnhancedDataProcessingResult(ret.out, processed) :
                 processed \in {Processed(FewRecords), Raised("FileNotFoundError")}}
  /\ UNCHANGED <<exports_data, imports_data, trade_balance_data, unique_array>>

\* stage 2
RunTimeSeriesAnalysis ==
  /\ AtStep("time_series")
  /\ ret' \in {RunTimeSeriesAnalysisResult(ret.out, load, analysis_results) :
                 load \in LoadOutcomes,
                 analysis_results \in
                   AnalysisOutcomes(exports_data, imports_data, trade_balance_data)}
  /\ UNCHANGED <<exports_data, imports_data, trade_balance_data, unique_array>>

\* stage 3
RunAdvancedForecasting ==
  /\ AtStep("forecasting")
  /\ ret' \in {RunAdvancedForecastingResult(ret.out, predictions) :
                 predictions \in PipelineOutcomes(exports_data, imports_data)}
  /\ UNCHANGED <<exports_data, imports_data, trade_balance_data, unique_array>>

\* stage 4
GenerateComprehensiveReport ==
  /\ AtStep("reporting")
  /\ ret' \in {GenerateComprehensiveReportResult(ret.out, save) : save \in SaveOutcomes}
  /\ UNCHANGED <<exports_data, imports_data, trade_balance_data, unique_array>>

\* the end of the try block: execution_end, the summary, the return
CompleteRun ==
  /\ AtStep("finishing")
  /\ ret' = RunCompleted(ret.out)
  /\ UNCHANGED <<exports_data, imports_data, trade_balance_data, unique_array>>

\* PipelineRunner.run_full_pipeline
RunFullPipeline ==
  /\ ret = Idle
  /\ \E statuses \in {{IF r.status = "ok" THEN "ok" ELSE "raised" :
                          r \in PipelineOutcomes(exports_data, imports_data)}} :
       ret' \in {Call("run_full_pipeline", "all", PipelineQuarters,
                       RunFullPipelineResult(processing, predictions, analysis, save)) :
                    processing \in {"ok", "raised"}, predictions \in statuses,
                    analysis \in {"ok", "raised"}, save \in SaveOutcomes}
  /\ UNCHANGED <<exports_data, imports_data, trade_balance_data, unique_array>>

Discard ==
  /\ ret # Idle
  /\ ret.op = "run_comprehensive_analysis" => ret.key \in {"returned", "raised"}
  /\ ret' = Idle
  /\ UNCHANGED <<exports_data, imports_data, trade_balance_data, unique_array>>

Init ==
  /\ exports_data \in ExportFamily(MaxQuarters)
  /\ imports_data \in ImportFamily(MaxImportQuarters)
  /\ trade_balance_data = Data(AllCols, <<>>)
  /\ unique_array \in ArrayKinds
  /\ ret = Idle

Next ==
  \/ GenerateBaseline
  \/ PredictExports
  \/ PredictImports
  \/ PredictTradeBalance
  \/ GenerateTimeSeriesPredictionsSteps
  \/ ArimaForecast
  \/ SarimaForecast
  \/ ExponentialSmoothingForecast
  \/ EnsembleForecast
  \/ PrepareSeriesData
  \/ PrepareSeries
  \/ ProfileSeries
  \/ RunCompleteAnalysis
  \/ RunFullPredictionPipeline
  \/ CompileRecommendations
  \/ StartRun
  \/ RunEnhancedDataProcessing
  \/ RunTimeSeriesAnalysis
  \/ RunAdvancedForecasting
  \/ GenerateComprehensiveReport
  \/ CompleteRun
  \/ RunFullPipeline
  \/ Discard

Spec == Init /\ [][Next]_vars

\* long series, for the strategies' minimum numbers of observations
InitEnsemble ==
  /\ exports_data \in {Data(AllCols, FamilyRecs(n, sh[1], sh[2])) :
                          n \in 0..MaxSeriesLen, sh \in EnsembleShapes}
  /\ imports_data = Data(AllCols, <<>>)
  /\ trade_balance_data = Data(AllCols, <<>>)
  /\ unique_array = "ndarray"
  /\ ret = Idle

SpecEnsemble == InitEnsemble /\ [][Next]_vars

\* short export record lists in any order, with repeated and malformed quarter
\* tokens, beside no import history or a full one
InitBuilder ==
  /\ \/ /\ exports_data \in BuilderFamily(MaxRecords)
        /\ imports_data = Data(AllCols, <<>>)
     \/ /\ exports_data = Data(AllCols, <<>>)
        /\ imports_data = Data(AllCols, SeriesRecs(MaxImportQuarters, "rising"))
  /\ trade_balance_data = Data(AllCols, <<>>)
  /\ unique_array \in ArrayKinds
  /\ ret = Idle

SpecBuilder == InitBuilder /\ [][Next]_vars

\* short export, import and balance histories, for the profiles and their rules
InitAnalysis ==
  /\ exports_data \in ProfileFamily(MaxProfileLen, {"rising", "falling", "flat"})
                        \cup ProfileFamily(MaxQuarters, {"volatile"})
                        \cup {Data(AllCols, GappedRecs), Data(AllCols, ZeroStartRecs)}
  /\ imports_data \in ProfileFamily(MaxProfileImports, {"rising"})
  /\ trade_balance_data \in ProfileFamily(MaxProfileLen, {"deficit"})
                               \cup {Data(AllCols, ProfileRecs(MaxProfileImports, "rising"))}
  /\ unique_array = "ndarray"
  /\ ret = Idle

SpecAnalysis == InitAnalysis /\ [][Next]_vars

(***************************************************************************)
(* Properties.                                                             *)
(***************************************************************************)
PredictOps == {"predict_exports", "predict_imports", "predict_trade_balance"}

StrategyOps == {"arima", "sarima", "exponential_smoothing"}

DataOf(key) == IF key = "export" THEN exports_data ELSE imports_data

\* the number of observations of the series an operation worked on
UniqueCount(key) == Len(PrepareTimeSeriesData(DataOf(key)))

SeriesLen(key) == Len(PrepareTimeSeries(DataOf(key)))

AllConfidence(points, c) == \A i \in 1..Len(points) : points[i].confidence = c

\* C1: _generate_baseline_predictions returns exactly n_quarters points, without
\* raising, whatever the historical records are (none, one quarter, several
\* quarters, a missing value or quarter column).
C1_BaselineAlwaysReturns ==
  ret.op = "baseline" =>
    /\ ret.out.status = "ok"
    /\ Len(ret.out.points) = ret.n

\* C2: on a series of exactly one observation every strategy fails and the
\* forecast returned is the baseline estimator's, with confidence 60 at every step.
C2_DegradationLaw ==
  /\ (ret.op \in {"predict_exports", "predict_imports"} /\ UniqueCount(ret.key) = 1) =>
       /\ ret.out.status = "ok"
       /\ Len(ret.out.points) = ret.n
       /\ AllConfidence(ret.out.points, 60)
       /\ \A i \in 1..ret.n :
            RatEq(ret.out.points[i].value, Mean(ValuesOf(DataOf(ret.key).recs)))
       /\ ret.out = GenerateBaselinePredictions(ret.n, ret.key, exports_data, imports_data)
  /\ (ret.op \in StrategyOps /\ SeriesLen(ret.key) = 1) =>
       ret.out.error /\ ret.out.reason = "insufficient data"
  /\ (ret.op = "ensemble" /\ SeriesLen(ret.key) = 1) =>
       /\ ~ret.out.model_contributions.arima
       /\ ~ret.out.model_contributions.sarima
       /\ ~ret.out.model_contributions.exponential_smoothing

C2_Witness ==
  /\ ret.op = "predict_exports"
  /\ UniqueCount("export") = 1
  /\ Len(exports_data.recs) = 2
  /\ ret.n = MaxHorizon
  /\ ret.out.status = "ok"

\* C3: with at least 2 and fewer than 8 unique quarters no strategy succeeds and
\* the forecast is the baseline's: the mean of the inputs at every step
\* (108.75 for 100, 110, 105, 120), with confidence 60.
C3_ShortSeriesBaseline ==
  (ret.op = "predict_exports" /\ UniqueCount("export") >= 2 /\ UniqueCount("export") < 8) =>
    /\ ret.out.status = "ok"
    /\ Len(ret.out.points) = ret.n
    /\ AllConfidence(ret.out.points, 60)
    /\ \A i \in 1..Len(ret.out.points) :
         RatEq(ret.out.points[i].value, Mean(ValuesOf(PrepareTimeSeriesData(exports_data))))

\* the value of a finite float, as an exact rational
FloatToRat(x) == IF x.e >= 0 THEN Rat(x.m * Pow2(x.e), 1) ELSE Rat(x.m, Pow2(0 - x.e))

FloatEqRat(x, r) == ~x.nan /\ RatEq(FloatToRat(x), r)

\* the strategies the result records as contributing, with their decimal weights in tenths
Contributors(out) ==
  (IF out.model_contributions.arima THEN {<<"arima", 3>>} ELSE {})
    \cup (IF out.model_contributions.sarima THEN {<<"sarima", 4>>} ELSE {})
    \cup (IF out.model_contributions.exponential_smoothing
            THEN {<<"exponential_smoothing", 3>>} ELSE {})

StepFinite(out, i) ==
  \A c \in Contributors(out) : ~out.individual_forecasts[c[1]][i].nan

\* a + b for rationals whose denominators are powers of two
RatAdd(a, b) ==
  LET d == Max(a.d, b.d) IN Rat(a.n * (d \div a.d) + b.n * (d \div b.d), d)

\* weight (in tenths) times the recorded point of strategy name at step i (its
\* magnitude when abs), 0 when the strategy does not contribute
WeightedPoint(out, name, tenths, i, abs) ==
  IF <<name, tenths>> \in Contributors(out)
    THEN LET r == FloatToRat(out.individual_forecasts[name][i])
         IN  Rat(tenths * (IF abs THEN Abs(r.n) ELSE r.n), r.d)
    ELSE Rat(0, 1)

WeightOf(out, name, tenths) == IF <<name, tenths>> \in Contributors(out) THEN tenths ELSE 0

WeightedMeanOf(out, i, abs) ==
  LET num == RatAdd(RatAdd(WeightedPoint(out, "arima", 3, i, abs),
                           WeightedPoint(out, "sarima", 4, i, abs)),
                    WeightedPoint(out, "exponential_smoothing", 3, i, abs))
      den == WeightOf(out, "arima", 3) + WeightOf(out, "sarima", 4)
               + WeightOf(out, "exponential_smoothing", 3)
  IN  Rat(num.n, num.d * den)

\* the weighted mean of the recorded contributors' points at step i, in exact arithmetic
ExactWeightedMean(out, i) == WeightedMeanOf(out, i, FALSE)

\* the same mean over the magnitudes of the points
ExactWeightedAbsMean(out, i) == WeightedMeanOf(out, i, TRUE)

ContributionsRecorded(out, periods) ==
  periods > 0 =>
    /\ out.model_contributions.arima <=> Len(out.individual_forecasts.arima) = periods
    /\ out.model_contributions.sarima <=> Len(out.individual_forecasts.sarima) = periods
    /\ out.model_contributions.exponential_smoothing
         <=> Len(out.individual_forecasts.exponential_smoothing) = periods

\* C4 as stated: at every step the ensemble point equals the weighted mean of the
\* successful strategies' points over the sum of their weights, and equals the
\* single successful strategy's point exactly when there is only one.
C4_EnsembleExact ==
  ret.op = "ensemble" =>
    /\ ContributionsRecorded(ret.out, ret.n)
    /\ \A i \in 1..ret.n :
         (Contributors(ret.out) # {} /\ StepFinite(ret.out, i)) =>
           FloatEqRat(ret.out.ensemble_forecasts[i], ExactWeightedMean(ret.out, i))

\* C4 (amended): at every step the ensemble point is the floating-point evaluation
\* of that weighted mean: it differs from the exact value by at most 9 * 2^-P (P the
\* significand width, 53 for Python floats) times the weighted mean of the points'
\* magnitudes, also when a single strategy succeeded; the recorded contributors
\* are exactly the successful ones.
C4_EnsembleWithinRounding ==
  ret.op = "ensemble" =>
    /\ ContributionsRecorded(ret.out, ret.n)
    /\ \A i \in 1..ret.n :
         (Contributors(ret.out) # {} /\ StepFinite(ret.out, i)) =>
           LET x == FloatToRat(ret.out.ensemble_forecasts[i])
               q == ExactWeightedMean(ret.out, i)
               a == ExactWeightedAbsMean(ret.out, i)
           IN  /\ ~ret.out.ensemble_forecasts[i].nan
               /\ Abs(x.n * q.d - q.n * x.d) * Pow2(MantissaBits) <= 9 * a.n * x.d

C4_Witness ==
  /\ ret.op = "ensemble"
  /\ ret.n = MaxPeriods
  /\ Cardinality(Contributors(ret.out)) = 2
  /\ StepFinite(ret.out, 1)
  /\ ret.out.individual_forecasts.arima[1] # ret.out.individual_forecasts.exponential_smoothing[1]

\* the baseline estimator's value for a series: its mean, 0 without data
HistoricalMean(ts) == IF ts = <<>> THEN Rat(0, 1) ELSE Mean(ValuesOf(ts))

\* C5: when no strategy succeeds at a step the ensemble carries the baseline
\* estimator's value, the historical mean of the series, for that step.
C5_BaselineSubstituted ==
  (ret.op = "ensemble" /\ Contributors(ret.out) = {}) =>
    \A i \in 1..ret.n :
      FloatEqRat(ret.out.ensemble_forecasts[i],
                 HistoricalMean(PrepareTimeSeries(DataOf(ret.key))))

\* C6: arima_forecast, sarima_forecast, exponential_smoothing_forecast and
\* ensemble_forecast return a result record for every series; a failure inside is a
\* failure record with a reason, never an exception leaving the function.
C6_NoThrowPastBoundary ==
  /\ ret.op \in StrategyOps =>
       /\ ret.out.reason # "raised"
       /\ ret.out.error => ret.out.reason \in {"insufficient data", "exception"}
       /\ ~ret.out.error => Len(ret.out.forecast_values) = ret.n
  /\ ret.op = "ensemble" =>
       /\ ~ret.out.error
       /\ Len(ret.out.ensemble_forecasts) = ret.n

C6_Witness ==
  /\ ret.op = "arima"
  /\ SeriesLen(ret.key) >= ArimaMinObs
  /\ ret.out.error
  /\ ret.out.reason = "exception"

\* C7: with n observations ARIMA fails with a reason when n < 10, SARIMA when
\* n < 20, smoothing when n < 8; so no strategy contributes to the ensemble for
\* n < 8, only smoothing can for 8 <= n < 10, and SARIMA only for n >= 20.
C7_MinimumObservations ==
  LET n == SeriesLen(ret.key)
      Fails(out) == out.error /\ out.reason \in {"insufficient data", "exception"}
  IN  /\ (ret.op = "arima" /\ n < 10) => Fails(ret.out)
      /\ (ret.op = "sarima" /\ n < 20) => Fails(ret.out)
      /\ (ret.op = "exponential_smoothing" /\ n < 8) => Fails(ret.out)
      /\ ret.op = "ensemble" =>
           /\ n < 8 => Contributors(ret.out) = {}
           /\ (n >= 8 /\ n < 10) =>
                Contributors(ret.out) \subseteq {<<"exponential_smoothing", 3>>}
           /\ ret.out.model_contributions.sarima => n >= 20
           /\ ret.out.model_contributions.arima => n >= 10

C7_Witness ==
  /\ ret.op = "ensemble"
  /\ SeriesLen(ret.key) = 9
  /\ ret.n > 0
  /\ Contributors(ret.out) = {<<"exponential_smoothing", 3>>}

\* C8: a strategy whose forecast holds a non-finite value is reported as failed
\* and kept out of the ensemble, so no ensemble point comes from a non-finite member.
C8_NonFiniteExcluded ==
  /\ (ret.op \in StrategyOps /\ ~ret.out.error) =>
       \A i \in 1..Len(ret.out.forecast_values) : ~ret.out.forecast_values[i].nan
  /\ ret.op = "ensemble" =>
       \A i \in 1..ret.n : StepFinite(ret.out, i) /\ ~ret.out.ensemble_forecasts[i].nan

\* a returned forecast that came from the fitted model: there were the feature
\* rows to train on and the forecast is not the baseline's
ModelBased ==
  /\ ret.op \in {"predict_exports", "predict_imports"}
  /\ ret.out.status = "ok"
  /\ Len(PrepareFeatures(DataOf(ret.key)).features) >= MinRows
  /\ ret.out # GenerateBaselinePredictions(ret.n, ret.key, exports_data, imports_data)

\* a returned forecast that came from the baseline estimator
BaselineOnly ==
  /\ ret.op \in {"baseline", "predict_exports", "predict_imports"}
  /\ ret.out.status = "ok"
  /\ \/ ret.op = "baseline"
     \/ Len(PrepareFeatures(DataOf(ret.key)).features) < MinRows
     \/ ret.out = GenerateBaselinePredictions(ret.n, ret.key, exports_data, imports_data)

ModelConfidences(points) ==
  \A i \in 1..Len(points) :
    points[i].confidence = (IF 85 - 5 * i > 50 THEN 85 - 5 * i ELSE 50)

C10_ConfidenceMonotone ==
  (ret.op \in PredictOps /\ ret.out.status = "ok") =>
    /\ Len(ret.out.points) = ret.n
    /\ \A i \in 1..ret.n :
         ret.out.points[i].confidence >= 50 /\ ret.out.points[i].confidence <= 100
    /\ \A i \in 1..(ret.n - 1) :
         ret.out.points[i + 1].confidence <= ret.out.points[i].confidence

C10_Witness ==
  /\ ret.op = "predict_trade_balance"
  /\ ret.out.status = "ok"
  /\ ret.n = MaxHorizon
  /\ ret.out.points[1].confidence = 60
  /\ ret.out.points[MaxHorizon].confidence = 50

\* C11: at every step of every horizon the confidence of a baseline-derived point
\* is strictly lower than the confidence of a model-derived point of the same step.
C11_BaselineLessTrusted ==
  ModelBased =>
    \A i \in 1..Len(ret.out.points) :
      LET baseline == GenerateBaselinePredictions(ret.n, ret.key, exports_data, imports_data)
          b        == IF baseline.status = "ok" THEN baseline.points[i].confidence
                      ELSE BaselineConfidence
      IN  b < ret.out.points[i].confidence

\* the value a flat baseline forecast carries: the mean of the record values, 0
\* when there are no records or no value column
FlatAtMean(points, data) ==
  \A i \in 1..Len(points) :
    IF data.recs = <<>> \/ "value" \notin data.cols
      THEN points[i].value.n = 0
      ELSE points[i].value.n * Len(data.recs)
             = SumSeq(ValuesOf(data.recs)) * points[i].value.d

KnownQuarters(data) ==
  IF "quarter" \notin data.cols THEN {}
  ELSE {t \in UniqueQuarters(data.recs) : t.q \in 1..4}

\* the quarter i quarters after t
QuartersAfter(t, i) == Quarter((t.y * 4 + (t.q - 1) + i) \div 4, ((t.q - 1 + i) % 4) + 1)

\* where the baseline's keys start: the chronologically latest quarter of the
\* records, the epoch 2024Q4 when they name none
LatestKnown(data) ==
  IF KnownQuarters(data) = {} THEN Quarter(2024, 4)
  ELSE CHOOSE t \in KnownQuarters(data) :
         \A u \in KnownQuarters(data) : u.y * 4 + u.q <= t.y * 4 + t.q

\* C13: the i-th point of a baseline forecast carries the quarter i quarters after
\* the chronologically latest quarter of the records (after 2024Q4 with no data),
\* rolling over from Q4 to Q1 of the next year and always naming a quarter in 1..4.
C13_BaselineQuarterKeys ==
  (ret.op = "baseline" /\ ret.out.status = "ok") =>
    \A i \in 1..Len(ret.out.points) :
      /\ ret.out.points[i].quarter.q \in 1..4
      /\ ret.out.points[i].quarter = QuartersAfter(LatestKnown(DataOf(ret.key)), i)

BuilderOps == {"prepare_time_series_data", "prepare_time_series"}

\* every record carries a well-formed quarter token
WellFormed(data) == \A i \in 1..Len(data.recs) : data.recs[i].quarter.q \in 1..4

\* the position of a quarter on the time axis
QuarterIndex(t) == t.y * 4 + t.q

\* C14: for records with at least 2 unique quarters, in any order and with any
\* duplicates, the series built by prepare_time_series_data and by
\* prepare_time_series has one observation per quarter, no quarter twice, in
\* ascending order of the quarters.
C14_SeriesUniqueSorted ==
  LET data == DataOf(ret.key)
      rows == ret.out.rows
  IN  (ret.op \in BuilderOps /\ WellFormed(data)
         /\ Cardinality(UniqueQuarters(data.recs)) >= 2) =>
        /\ Len(rows) = Cardinality(UniqueQuarters(data.recs))
        /\ ret.op = "prepare_time_series_data" =>
             \A i \in 1..(Len(rows) - 1) :
               QuarterIndex(rows[i].quarter) < QuarterIndex(rows[i + 1].quarter)
        /\ ret.op = "prepare_time_series" =>
             \A i \in 1..(Len(rows) - 1) : rows[i].quarter_date < rows[i + 1].quarter_date

C14_Witness ==
  /\ ret.op = "prepare_time_series_data"
  /\ ret.key = "export"
  /\ WellFormed(exports_data)
  /\ Len(exports_data.recs) = 3
  /\ exports_data.recs[1].quarter = exports_data.recs[3].quarter
  /\ QuarterIndex(exports_data.recs[2].quarter) < QuarterIndex(exports_data.recs[1].quarter)
  /\ Len(ret.out.rows) = 2

\* the values of the records of quarter t, in the order of the list
ValuesAt(data, t) ==
  ValuesOf(KeepIdx(data.recs, {i \in 1..Len(data.recs) : data.recs[i].quarter = t}, 1))

\* C15: records sharing one quarter become a single observation: their sum in
\* "sum" mode (prepare_time_series, which aggregates by summing), the last-written
\* value in "replace" mode (prepare_time_series_data): 50 and 70 give 120 and 70.
C15_DuplicateAggregation ==
  LET data == DataOf(ret.key)
      rows == ret.out.rows
  IN  (ret.op \in BuilderOps /\ WellFormed(data) /\ data.recs # <<>>) =>
        /\ Len(rows) = Cardinality(UniqueQuarters(data.recs))
        /\ ret.op = "prepare_time_series_data" =>
             \A i \in 1..Len(rows) :
               LET vals == ValuesAt(data, rows[i].quarter)
               IN  rows[i].value = vals[Len(vals)]
        /\ ret.op = "prepare_time_series" =>
             \A i \in 1..Len(rows) :
               \E t \in UniqueQuarters(data.recs) :
                 /\ QuarterDate(t) = rows[i].quarter_date
                 /\ rows[i].value = SumSeq(ValuesAt(data, t))

\* the records without those whose quarter token cannot be parsed
WithoutMalformed(data) ==
  Data(data.cols,
       KeepIdx(data.recs, {i \in 1..Len(data.recs) : data.recs[i].quarter.q \in 1..4}, 1))

\* C16: a record whose quarter token cannot be parsed is dropped, and only it: the
\* series built by prepare_time_series_data and by prepare_time_series is the one
\* built from the remaining records alone.
C16_MalformedDropped ==
  /\ ret.op = "prepare_time_series_data" =>
       ret.out.rows = PrepareTimeSeriesData(WithoutMalformed(DataOf(ret.key)))
  /\ ret.op = "prepare_time_series" =>
       ret.out.rows = PrepareTimeSeries(WithoutMalformed(DataOf(ret.key)))

\* C17: the points of a model-based export or import forecast are >= 0 whatever
\* the regressor returns; a balance point is predicted_export - predicted_import of
\* its step, unfloored, and is labelled surplus iff it is >= 0.
C17_FloorExportsImportsOnly ==
  /\ ModelBased => \A i \in 1..Len(ret.out.points) : ret.out.points[i].value.n >= 0
  /\ (ret.op = "predict_trade_balance" /\ ret.out.status = "ok") =>
       \A i \in 1..Len(ret.out.points) :
         LET p == ret.out.points[i]
         IN  /\ p.value.d > 0 /\ p.predicted_export.d > 0 /\ p.predicted_import.d > 0
             /\ p.value.n * (p.predicted_export.d * p.predicted_import.d)
                  = (p.predicted_export.n * p.predicted_import.d
                       - p.predicted_import.n * p.predicted_export.d) * p.value.d
             /\ p.balance_type = (IF p.value.n >= 0 THEN "surplus" ELSE "deficit")

C17_Witness ==
  /\ ret.op = "predict_trade_balance"
  /\ ret.out.status = "ok"
  /\ ret.n > 0
  /\ Len(PrepareFeatures(exports_data).features) >= MinRows
  /\ Len(PrepareFeatures(imports_data).features) >= MinRows
  /\ ret.out.points[1].confidence = 80
  /\ ret.out.points[1].predicted_export.n = 0
  /\ ret.out.points[1].value.n < 0
  /\ ret.out.points[1].balance_type = "deficit"


(***************************************************************************)
(* The recommendation rules.                                               *)
(***************************************************************************)
AnalysisRun == ret.op = "run_complete_analysis" /\ ret.out.status = "ok"

Emitted(type) ==
  {i \in 1..Len(ret.out.recommendations) : ret.out.recommendations[i].type = type}

ProfileOf(analysis) ==
  IF analysis.present THEN analysis.statistical_analysis ELSE StatisticalAnalysis(<<>>, FALSE)

\* C18: of an analysis run, the recommendation list holds one "export_growth"
\* (resp. "export_decline") record with priority high and the trend's r_squared
\* as confidence iff the export trend is significant and increasing (resp.
\* decreasing), one "trade_deficit" record (high, 0.8) iff the mean of the balance
\* series is negative, one "high_volatility" record (medium, 0.7) iff the export
\* volatility is above the threshold, and nothing else; the four rules fire
\* whatever the others do.
C18_RuleTable ==
  AnalysisRun =>
    LET recs == ret.out.recommendations
        trend == ProfileOf(ret.out.exports_analysis).trend_analysis
        volatility == ProfileOf(ret.out.exports_analysis).volatility_analysis
        balance == ProfileOf(ret.out.trade_balance_analysis)
        fires(type, priority, confidence, condition) ==
          /\ Cardinality(Emitted(type)) = (IF condition THEN 1 ELSE 0)
          /\ \A i \in Emitted(type) : recs[i] = Recommendation(type, priority, confidence)
    IN  /\ fires("export_growth", "high", trend.r_squared,
                 trend.significant /\ trend.trend_direction = "increasing")
        /\ fires("export_decline", "high", trend.r_squared,
                 trend.significant /\ trend.trend_direction = "decreasing")
        /\ fires("trade_deficit", "high", FLit(8, 10),
                 ~balance.error /\ RatLt(balance.basic_statistics.mean, Rat(0, 1)))
        /\ fires("high_volatility", "medium", FLit(7, 10),
                 /\ ~volatility.error
                 /\ volatility.finite
                 /\ RatLt(Rat(Sq(VolatilityThreshold), 1), volatility.variance))
        /\ \A i \in 1..Len(recs) :
             recs[i].type \in {"export_growth", "export_decline", "trade_deficit",
                               "high_volatility"}

\* a run on swinging exports without a significant trend and on a balance history
\* in deficit: the deficit and the volatility rules fire, the trend rule does not
C18_Witness ==
  /\ AnalysisRun
  /\ Len(PrepareTimeSeries(exports_data)) >= 3
  /\ SumSeq(SeriesValues(PrepareTimeSeries(trade_balance_data))) < 0
  /\ ~ret.out.exports_analysis.statistical_analysis.trend_analysis.significant
  /\ ret.out.recommendations
       = <<Recommendation("trade_deficit", "high", FLit(8, 10)),
           Recommendation("high_volatility", "medium", FLit(7, 10))>>


(***************************************************************************)
(* The compiled recommendation list.                                       *)
(***************************************************************************)
Compiled == ret.op = "compile_recommendations"

ArrivalOrder ==
  ret.out.arrivals.time_series \o ret.out.arrivals.forecasting \o ret.out.arrivals.data

PriorityRank(priority) ==
  CASE priority = "high" -> 3 [] priority = "medium" -> 2 [] priority = "low" -> 1 [] OTHER -> 0

OfPriority(recs, priority) ==
  LET Test(rec) == rec.priority = priority IN SelectSeq(recs, Test)

\* C19: the compiled list holds the arrived recommendations with high before
\* medium before low, and the recommendations of one priority in the order in
\* which they arrived (time series, then forecasting, then data).
C19_SortedByPriorityStable ==
  Compiled =>
    LET recs == ret.out.recommendations
    IN  /\ Len(recs) = Len(ArrivalOrder)
        /\ \A i \in 1..Len(recs) : \A j \in i..Len(recs) :
             PriorityRank(recs[i].priority) >= PriorityRank(recs[j].priority)
        /\ \A priority \in {"high", "medium", "low"} :
             OfPriority(recs, priority) = OfPriority(ArrivalOrder, priority)

\* a compilation in which a medium time-series recommendation arrived before a
\* high forecasting recommendation, and two high recommendations arrived from
\* different stages
C19_Witness ==
  /\ Compiled
  /\ \E i \in 1..Len(ret.out.arrivals.time_series) :
       ret.out.arrivals.time_series[i].priority = "medium"
  /\ \E i \in 1..Len(ret.out.arrivals.time_series) :
       ret.out.arrivals.time_series[i].priority = "high"
  /\ \E i \in 1..Len(ret.out.arrivals.forecasting) :
       ret.out.arrivals.forecasting[i].type = "export_opportunity"
  /\ ret.out.recommendations # ArrivalOrder


(***************************************************************************)
(* Failures of one series in a run.                                        *)
(***************************************************************************)
Observed(data) == PrepareTimeSeries(data) # <<>>

\* C20: no run is aborted by the failure of one series: the prediction pipeline
\* raises only when its results cannot be written, never because the export or
\* the import forecast raised, and an analysis run that returns its results holds
\* the profile and the forecasts of every series that has observations.
C20_SeriesFailureIsolated ==
  /\ (ret.op = "run_full_prediction_pipeline" /\ ret.out.status = "raised")
       => ret.out.failed = "save"
  /\ AnalysisRun =>
       /\ ret.out.exports_analysis.present = Observed(exports_data)
       /\ ret.out.imports_analysis.present = Observed(imports_data)
       /\ ret.out.trade_balance_analysis.present = Observed(trade_balance_data)

(***************************************************************************)
(* The runs of ComprehensiveAnalysisRunner.                                *)
(***************************************************************************)
\* the run returned self.results after logging that it completed successfully
RunReturned == ret.op = "run_comprehensive_analysis" /\ ret.key = "returned"

\* the series for which the stored analysis holds an entry
AnalysedSeries(results) ==
  IF results.time_series_results.status = "ok"
    THEN results.time_series_results.analysed ELSE {}

\* C21: a run that assembled its report and was reported as completed
\* successfully analysed at least one of the named series; a run in which
\* every series is empty or failed is not reported as successful.
C21_SuccessNeedsAnalysis ==
  (RunReturned /\ ret.out.report.written) => AnalysedSeries(ret.out) # {}

\* a run of the orchestrator, at any step
InRun == ret.op = "run_comprehensive_analysis"

\* C22: the number of points forecast for each series equals the configured
\* forecast horizon (forecast_periods, ret.n), and the horizon recorded in the
\* report equals the number of points actually forecast.
C22_HorizonFollowsConfiguration ==
  (InRun /\ ret.out.forecasting_results.status = "ok") =>
    /\ ret.out.forecasting_results.export_points = ret.n
    /\ ret.out.forecasting_results.import_points = ret.n
    /\ ret.out.forecasting_results.balance_points = ret.n
    /\ ret.out.report.written =>
         ret.out.report.forecast_horizon = ret.out.forecasting_results.export_points

(***************************************************************************)
(* Series without observations.                                            *)
(***************************************************************************)
\* C23: for a series with zero observations statistical_analysis returns an
\* error record without statistics, and predict_exports and predict_imports
\* return the baseline's points, as many as the horizon asks for.
C23_NoDataProfileAndBaseline ==
  /\ (ret.op = "statistical_analysis" /\ SeriesLen(ret.key) = 0) =>
       ret.out.error /\ ret.out.basic_statistics.count = 0
  /\ (ret.op \in {"predict_exports", "predict_imports"} /\ SeriesLen(ret.key) = 0) =>
       /\ ret.out.status = "ok"
       /\ Len(ret.out.points) = ret.n
       /\ \A i \in 1..ret.n :
            ret.out.points[i].confidence \in {ZeroConfidence, BaselineConfidence}

(***************************************************************************)
(* The recursion of the feature-based forecast.                            *)
(***************************************************************************)
\* C24: at every step after the first the lag-1 feature given to the regressor
\* is the prediction of the step before and the older lags are those of the
\* step before shifted by one, and every point's quarter is one quarter after
\* the quarter of the point before.
C24_RecursiveLagFeedback ==
  ret.op = "generate_time_series_predictions" =>
    \A i \in 2..ret.n :
      /\ ret.out.inputs[i].lags[1] = ret.out.points[i - 1].value
      /\ \A k \in 2..Len(ret.out.inputs[i].lags) :
           ret.out.inputs[i].lags[k] = ret.out.inputs[i - 1].lags[k - 1]
      /\ ret.out.points[i].quarter = QuartersAfter(ret.out.points[i - 1].quarter, 1)

(***************************************************************************)
(* The trend of a profile.                                                 *)
(***************************************************************************)
\* n * sum(t * y) - sum(t) * sum(y) for t the time of each observation, in
\* months since the first: the numerator of the slope against the time axis
TimeSlopeNumerator(ts) ==
  LET t == [i \in 1..Len(ts) |-> ts[i].quarter_date - ts[1].quarter_date]
      y == SeriesValues(ts)
  IN  Len(ts) * SumSeq([i \in 1..Len(ts) |-> t[i] * y[i]]) - SumSeq(t) * SumSeq(y)

\* the series a profile was made of
ProfiledSeries == SeriesOf(ret.key, exports_data, imports_data)

\* C25: the trend of a series of fewer than 2 points is reported as
\* insufficient data; with 2 or more points the direction is "increasing"
\* iff the least-squares slope of the values against the continuous time
\* axis is > 0, also when the quarters are not contiguous.
C25_TrendAgainstTimeAxis ==
  (ret.op = "statistical_analysis" /\ ~ret.out.error) =>
    IF Len(ProfiledSeries) < 2 THEN ret.out.trend_analysis.error
    ELSE /\ ~ret.out.trend_analysis.error
         /\ ret.out.trend_analysis.trend_direction = "increasing"
              <=> TimeSlopeNumerator(ProfiledSeries) > 0

(***************************************************************************)
(* The volatility of a profile.                                            *)
(***************************************************************************)
\* the pairs of successive observations whose predecessor is not zero
KeptPairs(y) == {i \in 1..(Len(y) - 1) : y[i] # 0}

\* the percent changes of the kept pairs, in the order of the series
KeptReturns(y) ==
  LET Kept(i) == y[i] # 0
      idx == SelectSeq([i \in 1..(Len(y) - 1) |-> i], Kept)
  IN  [k \in 1..Len(idx) |-> PercentReturn(y[idx[k]], y[idx[k] + 1])]

\* C26: volatility is computed over the percent changes of the pairs whose
\* predecessor is not zero: the statistics are finite, the spread is that of
\* the kept changes and the positive and negative counts count kept pairs
\* only; a series of fewer than 2 points yields an error result.
C26_VolatilitySkipsZeroPredecessors ==
  (ret.op = "statistical_analysis" /\ ~ret.out.error) =>
    LET y == SeriesValues(ProfiledSeries)
        v == ret.out.volatility_analysis
    IN  IF Len(y) < 2 THEN v.error
        ELSE /\ ~v.error
             /\ v.finite
             /\ KeptPairs(y) # {} => v.variance = Variance(KeptReturns(y))
             /\ v.positive_returns =
                  Cardinality({i \in KeptPairs(y) : PositiveReturn(y[i], y[i + 1])})
             /\ v.negative_returns =
                  Cardinality({i \in KeptPairs(y) : NegativeReturn(y[i], y[i + 1])})

(***************************************************************************)
(* The order of the stages of a run.                                       *)
(***************************************************************************)
\* the names under which the stages enter stages_completed, in stage order
CompletedOrder == <<"data_processing", "time_series_analysis", "forecasting", "reporting">>

\* the enabled components, in stage order
EnabledOrder(components) ==
  LET Enabled(stage) == stage \in components IN SelectSeq(StageOrder, Enabled)

IsPrefix(s, t) == Len(s) <= Len(t) /\ \A i \in 1..Len(s) : s[i] = t[i]

\* s is t with some of its elements left out
RECURSIVE IsSubsequence(_, _)
IsSubsequence(s, t) ==
  IF s = <<>> THEN TRUE
  ELSE IF t = <<>> THEN FALSE
  ELSE IF Head(s) = Head(t) THEN IsSubsequence(Tail(s), Tail(t))
  ELSE IsSubsequence(s, Tail(t))

Entered(results, stage) == \E i \in 1..Len(results.attempted) : results.attempted[i] = stage

\* C27: in every run the enabled stages are attempted in the fixed order data
\* processing, time-series profiling, forecasting, reporting, each at most
\* once and one after the other; stages_completed is at all times an
\* order-preserving subsequence of that order; the report is written only
\* after the enabled profile and forecast stages were attempted; a failure of
\* data processing ends the run as failed with no later stage attempted; and
\* execution_end is set whenever the run has terminated.
C27_StagesInOrder ==
  InRun =>
    LET results == ret.out
        enabled == EnabledOrder(results.analysis_components)
    IN  /\ IsPrefix(results.attempted, enabled)
        /\ ret.key \notin {"finishing", "returned", "raised"} =>
             /\ Len(results.attempted) < Len(enabled)
             /\ ret.key = enabled[Len(results.attempted) + 1]
        /\ IsSubsequence(results.stages_completed, CompletedOrder)
        /\ results.report.written =>
             \A stage \in {"time_series", "forecasting"} \cap results.analysis_components :
               Entered(results, stage)
        /\ ret.key = "raised" =>
             /\ results.attempted = <<"data_processing">>
             /\ results.stages_completed = <<>>
             /\ results.errors # <<>>
        /\ ret.key \in {"returned", "raised"} => results.execution_end

\* a run of all four stages that returned although its forecasting stage failed
C27_Witness ==
  /\ RunReturned
  /\ ret.out.attempted = StageOrder
  /\ ret.out.stages_completed = <<"data_processing", "time_series_analysis", "reporting">>
  /\ ret.out.execution_end

(***************************************************************************)
(* The bookkeeping of a run.                                               *)
(***************************************************************************)
Completed(results, name) ==
  \E i \in 1..Len(results.stages_completed) : results.stages_completed[i] = name

\* C28: a stage is listed in stages_completed only if it produced a result
\* that is not an error, and a run ends with an empty errors list only if
\* no stage failed.
C28_BookkeepingFaithful ==
  InRun =>
    /\ Completed(ret.out, "time_series_analysis") => ret.out.time_series_results.status = "ok"
    /\ Completed(ret.out, "forecasting") => ret.out.forecasting_results.status = "ok"
    /\ (ret.key = "returned" /\ ret.out.errors = <<>>) =>
         /\ ret.out.time_series_results.status # "error"
         /\ \A k \in 1..Len(StageOrder) :
              StageOrder[k] \in ret.out.analysis_components =>
                Completed(ret.out, CompletedOrder[k])

(***************************************************************************)
(* The quarters of the balance forecast.                                   *)
(***************************************************************************)
\* C29: every point of predict_trade_balance is labelled with the quarter of
\* the export prediction and of the import prediction it subtracts, also
\* when the two histories end at different quarters or one of the two
\* predictions is the baseline's.
C29_BalanceSameQuarter ==
  (ret.op = "predict_trade_balance" /\ ret.out.status = "ok") =>
    \A i \in 1..Len(ret.out.points) :
      /\ \A e \in ExportOutcomes(ret.n, exports_data, imports_data) :
           e.status = "ok" => e.points[i].quarter = ret.out.points[i].quarter
      /\ \A m \in ImportOutcomes(ret.n, exports_data, imports_data) :
           m.status = "ok" => m.points[i].quarter = ret.out.points[i].quarter

(***************************************************************************)
(* What the written reports say about the run.                             *)
(***************************************************************************)
\* C30: a written report describes the finished run: the execution summary
\* the comprehensive report embeds has been computed when the report is
\* written, and the summary report of PipelineRunner carries an end time
\* that is set and a duration measured between start and end.
C30_ReportDescribesFinishedRun ==
  /\ (InRun /\ ret.out.report.written) => ret.out.report.execution_summary.computed
  /\ (ret.op = "run_full_pipeline" /\ ret.out.results.summary.written) =>
       /\ ret.out.results.summary.end_time
       /\ ret.out.results.summary.duration_measured

====
